---- MODULE Spec2Model ----
(***************************************************************************)
(* Verification model of the voice-todo application of ai-engineer-prep:   *)
(*   - parse_relative_date        (src/voice-todo-app/agent_tools.py)      *)
(*   - the task tools             (src/voice-todo-app/agent_tools.py,      *)
(*                                 src/voice-todo-app/agent.py)            *)
(*   - the task store             (src/voice-todo-app/database.py)         *)
(* Text is a sequence of one-character strings; a datetime is a record of  *)
(* its seven fields; calendar arithmetic goes through the proleptic        *)
(* Gregorian ordinal, as datetime + timedelta does.                        *)
(***************************************************************************)
EXTENDS Integers, Sequences, FiniteSets, TLC

VARIABLES
    expr,      \* date_string handed to parse_relative_date by the last call
    now,       \* the value datetime.now() returned inside that call
    result,    \* what the call produced: a timestamp or a raised error
    store,     \* the collection: metadata records in insertion order
    next_id,   \* Database._next_id
    clock,     \* the wall clock that stamps created_at
    reply,     \* what the last tool call returned to its caller
    call,      \* the last tool call and its arguments
    workers,   \* the threads inside a Database method: each one's locals
    todos,     \* chat_todo.py: the module's todos list
    messages,  \* the messages of the graph state of the current run
    node,      \* the node the graph runs next
    threads    \* chat_threads_memory.py: thread_store.threads

dateVars == <<expr, now, result>>
dbVars == <<store, next_id, clock, reply, call>>
workerVars == <<workers>>
graphVars == <<todos, messages, node, threads>>
vars == <<expr, now, result, store, next_id, clock, reply, call,
          workers, todos, messages, node, threads>>

-----------------------------------------------------------------------------
(* Characters and text                                                      *)

UpperSeq == <<"A","B","C","D","E","F","G","H","I","J","K","L","M",
              "N","O","P","Q","R","S","T","U","V","W","X","Y","Z">>
LowerSeq == <<"a","b","c","d","e","f","g","h","i","j","k","l","m",
              "n","o","p","q","r","s","t","u","v","w","x","y","z">>
DigitSeq == <<"0","1","2","3","4","5","6","7","8","9">>

Range(s) == {s[i] : i \in DOMAIN s}
IsUpper(c) == c \in Range(UpperSeq)
IsLower(c) == c \in Range(LowerSeq)
IsAlpha(c) == IsUpper(c) \/ IsLower(c)
IsDigit(c) == c \in Range(DigitSeq)
IsSpace(c) == c \in {" ", "\t", "\n"}

\* int() of one decimal digit
DigitVal(c) == (CHOOSE i \in DOMAIN DigitSeq : DigitSeq[i] = c) - 1

\* str.lower() of one character
LowerChar(c) ==
    IF IsUpper(c)
    THEN LowerSeq[CHOOSE i \in DOMAIN UpperSeq : UpperSeq[i] = c]
    ELSE c

\* str.lower()
Lower(s) == [i \in DOMAIN s |-> LowerChar(s[i])]

\* str.strip(): drop leading and trailing whitespace
Strip(s) ==
    IF \A i \in DOMAIN s : IsSpace(s[i])
    THEN << >>
    ELSE LET first == CHOOSE i \in DOMAIN s :
                          /\ ~IsSpace(s[i])
                          /\ \A j \in 1..(i - 1) : IsSpace(s[j])
             last == CHOOSE i \in DOMAIN s :
                          /\ ~IsSpace(s[i])
                          /\ \A j \in (i + 1)..Len(s) : IsSpace(s[j])
         IN  SubSeq(s, first, last)

\* p occurs in s starting at index i
MatchAt(s, p, i) ==
    /\ i >= 1
    /\ i + Len(p) - 1 <= Len(s)
    /\ \A k \in 1..Len(p) : s[i + k - 1] = p[k]

\* Python's "p in s" for strings
Contains(s, p) == \E i \in 1..(Len(s) + 1) : MatchAt(s, p, i)

\* str.startswith
StartsWith(s, p) == MatchAt(s, p, 1)

\* int() of a run of decimal digits
RECURSIVE DigitsToInt(_)
DigitsToInt(ds) ==
    IF ds = << >> THEN 0
    ELSE 10 * DigitsToInt(SubSeq(ds, 1, Len(ds) - 1)) + DigitVal(ds[Len(ds)])

\* str() of a non-negative integer
RECURSIVE IntToDigits(_)
IntToDigits(n) ==
    IF n < 10 THEN <<DigitSeq[n + 1]>>
    ELSE IntToDigits(n \div 10) \o <<DigitSeq[(n % 10) + 1]>>

-----------------------------------------------------------------------------
(* Calendar: datetime, timedelta                                            *)

IsLeap(y) == (y % 4 = 0) /\ ((y % 100 # 0) \/ (y % 400 = 0))

DaysInMonth(y, m) ==
    IF m = 2 THEN (IF IsLeap(y) THEN 29 ELSE 28)
    ELSE IF m \in {4, 6, 9, 11} THEN 30 ELSE 31

RECURSIVE DaysBeforeMonth(_, _)
DaysBeforeMonth(y, m) ==
    IF m = 1 THEN 0 ELSE DaysBeforeMonth(y, m - 1) + DaysInMonth(y, m - 1)

DaysBeforeYear(y) ==
    (y - 1) * 365 + ((y - 1) \div 4) - ((y - 1) \div 100) + ((y - 1) \div 400)

\* date.toordinal(): 0001-01-01 is day 1
YmdToOrd(y, m, d) == DaysBeforeYear(y) + DaysBeforeMonth(y, m) + d

\* date.fromordinal(): the year holding ordinal n, then month and day
OrdToYmd(n) ==
    LET n0   == n - 1
        n400 == n0 \div 146097
        r400 == n0 % 146097
        n100 == r400 \div 36524
        r100 == r400 % 36524
        n4   == r100 \div 1461
        r4   == r100 % 1461
        n1   == r4 \div 365
        r1   == r4 % 365
        y0   == n400 * 400 + n100 * 100 + n4 * 4 + n1 + 1
    IN  IF n1 = 4 \/ n100 = 4
        THEN [year |-> y0 - 1, month |-> 12, day |-> 31]
        ELSE LET m == CHOOSE mm \in 1..12 :
                          /\ DaysBeforeMonth(y0, mm) <= r1
                          /\ r1 < DaysBeforeMonth(y0, mm) + DaysInMonth(y0, mm)
             IN  [year |-> y0, month |-> m, day |-> r1 - DaysBeforeMonth(y0, m) + 1]

MinYear == 1
MaxYear == 9999
MaxOrdinal == YmdToOrd(MaxYear, 12, 31)

DateTime(y, mo, d, h, mi, s, us) ==
    [year |-> y, month |-> mo, day |-> d,
     hour |-> h, minute |-> mi, second |-> s, microsecond |-> us]

ToOrdinal(dt) == YmdToOrd(dt.year, dt.month, dt.day)

\* datetime.weekday(): Monday is 0
Weekday(dt) == (ToOrdinal(dt) + 6) % 7

\* seconds since midnight
SecondOfDay(dt) == (dt.hour * 60 + dt.minute) * 60 + dt.second

\* a's time of day is earlier than b's
TimeLess(a, b) ==
    \/ SecondOfDay(a) < SecondOfDay(b)
    \/ (SecondOfDay(a) = SecondOfDay(b) /\ a.microsecond < b.microsecond)

\* dt + timedelta(days=n) is representable
CanAddDays(dt, n) ==
    /\ n <= 999999999
    /\ ToOrdinal(dt) + n >= 1
    /\ ToOrdinal(dt) + n <= MaxOrdinal

\* AddDays with the day field bumped in place, no carry into month or year
AddDays_NoCarry(dt, n) == [dt EXCEPT !.day = @ + n]

\* dt + timedelta(days=n), where representable
AddDays(dt, n) ==
    LET ymd == OrdToYmd(ToOrdinal(dt) + n)
    IN  [dt EXCEPT !.year = ymd.year, !.month = ymd.month, !.day = ymd.day]

\* dt.replace(hour=0, minute=0, second=0, microsecond=0)
StartOfDay(dt) ==
    [dt EXCEPT !.hour = 0, !.minute = 0, !.second = 0, !.microsecond = 0]

\* (a - b).days: timedelta normalises to 0 <= seconds, so days is a floor
DiffDays(a, b) ==
    (ToOrdinal(a) - ToOrdinal(b)) - (IF TimeLess(a, b) THEN 1 ELSE 0)

Abs(x) == IF x < 0 THEN -x ELSE x

\* the fields name a calendar-valid datetime
ValidDateTime(dt) ==
    /\ dt.year \in MinYear..MaxYear
    /\ dt.month \in 1..12
    /\ dt.day \in 1..DaysInMonth(dt.year, dt.month)
    /\ dt.hour \in 0..23
    /\ dt.minute \in 0..59
    /\ dt.second \in 0..59
    /\ dt.microsecond \in 0..999999

-----------------------------------------------------------------------------
(* dateutil.parser.parse(timestr, fuzzy, default), as parse_relative_date   *)
(* calls it.  Modelled: the lexer over letters, digits, whitespace, ':'    *)
(* and '-'; numeric tokens read as H:MM[:SS], N am/pm, N hour(s), Y-M-D or  *)
(* a lone year/day; jump words; am/pm words; unknown words, which fail a   *)
(* strict parse and are skipped by a fuzzy one.  The inputs carry no month *)
(* or weekday names, no '.', ',' or '+', no digit runs of 6, 8, 12 or 14,  *)
(* and no '-' after a time of day.                                         *)

None == << >>
Some(v) == <<v>>
IsNone(o) == o = << >>
Val(o) == o[1]

\* _timelex: the length of the token that starts s
TokenLen(s) ==
    IF IsAlpha(s[1])
    THEN CHOOSE k \in 1..Len(s) :
             /\ \A j \in 1..k : IsAlpha(s[j])
             /\ (k = Len(s) \/ ~IsAlpha(s[k + 1]))
    ELSE IF IsDigit(s[1])
    THEN CHOOSE k \in 1..Len(s) :
             /\ \A j \in 1..k : IsDigit(s[j])
             /\ (k = Len(s) \/ ~IsDigit(s[k + 1]))
    ELSE 1

\* _timelex.split: words, digit runs, one ' ' per whitespace character, and
\* every other character alone
RECURSIVE Tokenize(_)
Tokenize(s) ==
    IF s = << >> THEN << >>
    ELSE LET k == TokenLen(s)
             tok == IF IsSpace(s[1]) THEN <<" ">> ELSE SubSeq(s, 1, k)
         IN  <<tok>> \o Tokenize(SubSeq(s, k + 1, Len(s)))

IsNumTok(t) == t # << >> /\ \A i \in DOMAIN t : IsDigit(t[i])

\* parserinfo.JUMP (the entries over the modelled alphabet)
JumpWords ==
    { <<" ">>, <<"-">>, <<"a","t">>, <<"o","n">>, <<"a","n","d">>, <<"a","d">>,
      <<"m">>, <<"t">>, <<"o","f">>, <<"s","t">>, <<"n","d">>, <<"r","d">>,
      <<"t","h">> }
IsJump(t) == Lower(t) \in JumpWords

\* parserinfo.ampm: 0 for am, 1 for pm
Ampm(t) ==
    IF Lower(t) \in { <<"a","m">>, <<"a">> } THEN Some(0)
    ELSE IF Lower(t) \in { <<"p","m">>, <<"p">> } THEN Some(1)
    ELSE None

\* parserinfo.hms: 0 hour, 1 minute, 2 second
Hms(t) ==
    IF Lower(t) \in { <<"h">>, <<"h","o","u","r">>, <<"h","o","u","r","s">> }
    THEN Some(0)
    ELSE IF Lower(t) \in { <<"m">>, <<"m","i","n","u","t","e">>,
                           <<"m","i","n","u","t","e","s">> }
    THEN Some(1)
    ELSE IF Lower(t) \in { <<"s">>, <<"s","e","c","o","n","d">>,
                           <<"s","e","c","o","n","d","s">> }
    THEN Some(2)
    ELSE None

\* parser._adjust_ampm
AdjustAmpm(hour, ampm) ==
    IF hour < 12 /\ ampm = 1 THEN hour + 12
    ELSE IF hour = 12 /\ ampm = 0 THEN 0
    ELSE hour

\* the parser's state before the first token
ParseStart ==
    [i |-> 1, err |-> FALSE,
     hour |-> None, minute |-> None, second |-> None, microsecond |-> None,
     ampm |-> None, tzname |-> FALSE,
     ymd |-> << >>, ystridx |-> None, century |-> FALSE]

\* _ymd.append(val) of a number; isStr: val is the token text, not a Decimal
YmdAppend(st, v, ndigits, isStr) ==
    LET yearLabel == IF isStr THEN ndigits > 2 ELSE v > 100
    IN  IF yearLabel /\ ~IsNone(st.ystridx)
        THEN [st EXCEPT !.err = TRUE]
        ELSE [st EXCEPT !.ymd = Append(@, v),
                        !.century = @ \/ yearLabel,
                        !.ystridx = IF yearLabel THEN Some(Len(st.ymd) + 1) ELSE @]

\* ymd.append of the token text t, which must be digits
YmdAppendTok(st, t) ==
    IF IsNumTok(t) THEN YmdAppend(st, DigitsToInt(t), Len(t), TRUE)
    ELSE [st EXCEPT !.err = TRUE]

\* parser._find_hms_idx with allow_jump=True; None when no label applies
FindHmsIdx(tokens, idx) ==
    LET n == Len(tokens)
    IN  IF idx + 1 <= n /\ ~IsNone(Hms(tokens[idx + 1])) THEN Some(idx + 1)
        ELSE IF idx + 2 <= n /\ tokens[idx + 1] = <<" ">>
                /\ ~IsNone(Hms(tokens[idx + 2])) THEN Some(idx + 2)
        ELSE IF idx > 1 /\ ~IsNone(Hms(tokens[idx - 1])) THEN Some(idx - 1)
        ELSE IF idx > 2 /\ idx = n /\ tokens[idx - 1] = <<" ">>
                /\ ~IsNone(Hms(tokens[idx - 2])) THEN Some(idx - 2)
        ELSE None

\* parser._assign_hms of a whole number
AssignHms(st, value, hms) ==
    IF hms = 0 THEN [st EXCEPT !.hour = Some(value)]
    ELSE IF hms = 1 THEN [st EXCEPT !.minute = Some(value), !.second = None]
    ELSE [st EXCEPT !.second = Some(value), !.microsecond = Some(0)]

\* parser._parse_numeric_token: st.i is left on the last token consumed
NumericToken(tokens, st, fuzzy) ==
    LET idx   == st.i
        n     == Len(tokens)
        tok   == tokens[idx]
        value == DigitsToInt(tok)
        lenLi == Len(tok)
        hmsIdx == FindHmsIdx(tokens, idx)
    IN  IF /\ Len(st.ymd) = 3 /\ lenLi \in {2, 4} /\ IsNone(st.hour)
           /\ (idx = n \/ (tokens[idx + 1] # <<":">> /\ IsNone(Hms(tokens[idx + 1]))))
        THEN \* 19990101T23[59]
             [st EXCEPT !.hour = Some(DigitsToInt(SubSeq(tok, 1, 2))),
                        !.minute = IF lenLi = 4
                                   THEN Some(DigitsToInt(SubSeq(tok, 3, 4)))
                                   ELSE @]
        ELSE IF ~IsNone(hmsIdx)
        THEN \* HH[ ]h or MM[ ]m or SS[ ]s
             IF Val(hmsIdx) > idx
             THEN [AssignHms(st, value, Val(Hms(tokens[Val(hmsIdx)])))
                      EXCEPT !.i = Val(hmsIdx)]
             ELSE IF Val(Hms(tokens[Val(hmsIdx)])) + 1 <= 2
             THEN AssignHms(st, value, Val(Hms(tokens[Val(hmsIdx)])) + 1)
             ELSE st
        ELSE IF idx + 2 <= n /\ tokens[idx + 1] = <<":">>
        THEN \* HH:MM[:SS]
             IF ~IsNumTok(tokens[idx + 2])
             THEN [st EXCEPT !.err = TRUE]
             ELSE LET hm == [st EXCEPT !.hour = Some(value),
                                       !.minute = Some(DigitsToInt(tokens[idx + 2])),
                                       !.second = None]
                  IN  IF idx + 4 <= n /\ tokens[idx + 3] = <<":">>
                      THEN IF ~IsNumTok(tokens[idx + 4])
                           THEN [st EXCEPT !.err = TRUE]
                           ELSE [hm EXCEPT !.second = Some(DigitsToInt(tokens[idx + 4])),
                                           !.microsecond = Some(0),
                                           !.i = idx + 4]
                      ELSE [hm EXCEPT !.i = idx + 2]
        ELSE IF idx + 1 <= n /\ tokens[idx + 1] = <<"-">>
        THEN \* 01-01[-01]
             LET s1 == YmdAppendTok(st, tok)
             IN  IF idx + 2 <= n /\ ~IsJump(tokens[idx + 2])
                 THEN LET s2 == YmdAppendTok(s1, tokens[idx + 2])
                      IN  IF idx + 3 <= n /\ tokens[idx + 3] = <<"-">>
                          THEN IF idx + 4 <= n
                               THEN [YmdAppendTok(s2, tokens[idx + 4])
                                        EXCEPT !.i = idx + 4]
                               ELSE [s2 EXCEPT !.err = TRUE]
                          ELSE [s2 EXCEPT !.i = idx + 2]
                 ELSE [s1 EXCEPT !.i = idx + 1]
        ELSE IF idx = n \/ IsJump(tokens[idx + 1])
        THEN IF idx + 2 <= n /\ ~IsNone(Ampm(tokens[idx + 2]))
             THEN \* 12 am
                  [st EXCEPT !.hour = Some(AdjustAmpm(value, Val(Ampm(tokens[idx + 2])))),
                             !.i = idx + 2]
             ELSE \* year, month or day
                  [YmdAppend(st, value, lenLi, FALSE) EXCEPT !.i = idx + 1]
        ELSE IF ~IsNone(Ampm(tokens[idx + 1])) /\ 0 <= value /\ value < 24
        THEN \* 12am
             [st EXCEPT !.hour = Some(AdjustAmpm(value, Val(Ampm(tokens[idx + 1])))),
                        !.i = idx + 1]
        ELSE IF 1 <= value /\ value <= 31
        THEN \* ymd.could_be_day
             YmdAppend(st, value, lenLi, FALSE)
        ELSE IF ~fuzzy THEN [st EXCEPT !.err = TRUE]
        ELSE st

\* parser._ampm_valid: "ok" takes the flag, "skip" ignores it, "raise" fails
AmpmValid(st, fuzzy) ==
    IF IsNone(st.hour) THEN (IF fuzzy THEN "skip" ELSE "raise")
    ELSE IF ~(0 <= Val(st.hour) /\ Val(st.hour) <= 12)
    THEN (IF fuzzy THEN "skip" ELSE "raise")
    ELSE IF fuzzy /\ ~IsNone(st.ampm) THEN "skip"
    ELSE "ok"

\* parser._could_be_tzname
CouldBeTzname(st, tok) ==
    /\ ~IsNone(st.hour)
    /\ ~st.tzname
    /\ Len(tok) <= 5
    /\ \A i \in DOMAIN tok : IsUpper(tok[i])

\* one round of the loop of parser._parse: the token at st.i
ParseToken(tokens, st, fuzzy) ==
    LET tok == tokens[st.i]
        done == IF IsNumTok(tok) THEN NumericToken(tokens, st, fuzzy)
                ELSE IF ~IsNone(Ampm(tok))
                THEN LET v == AmpmValid(st, fuzzy)
                     IN  IF v = "raise" THEN [st EXCEPT !.err = TRUE]
                         ELSE IF v = "ok"
                         THEN [st EXCEPT !.hour = Some(AdjustAmpm(Val(st.hour),
                                                                   Val(Ampm(tok)))),
                                         !.ampm = Ampm(tok)]
                         ELSE st
                ELSE IF CouldBeTzname(st, tok) THEN [st EXCEPT !.tzname = TRUE]
                ELSE IF ~(IsJump(tok) \/ fuzzy) THEN [st EXCEPT !.err = TRUE]
                ELSE st
    IN  [done EXCEPT !.i = @ + 1]

RECURSIVE ParseLoop(_, _, _)
ParseLoop(tokens, st, fuzzy) ==
    IF st.err \/ st.i > Len(tokens) THEN st
    ELSE ParseLoop(tokens, ParseToken(tokens, st, fuzzy), fuzzy)

\* _ymd.resolve_ymd without month names, dayfirst and yearfirst False
ResolveYmd(st) ==
    LET y == st.ymd
        nothing == [err |-> FALSE, year |-> None, month |-> None, day |-> None]
    IN  IF Len(y) > 3 THEN [nothing EXCEPT !.err = TRUE]
        ELSE IF Len(y) = 0 THEN nothing
        ELSE IF Len(y) = 1
        THEN IF ~IsNone(st.ystridx) \/ y[1] > 31
             THEN [nothing EXCEPT !.year = Some(y[1])]
             ELSE [nothing EXCEPT !.day = Some(y[1])]
        ELSE IF Len(y) = 2
        THEN IF y[1] > 31
             THEN [nothing EXCEPT !.year = Some(y[1]), !.month = Some(y[2])]
             ELSE IF y[2] > 31
             THEN [nothing EXCEPT !.month = Some(y[1]), !.year = Some(y[2])]
             ELSE [nothing EXCEPT !.month = Some(y[1]), !.day = Some(y[2])]
        ELSE IF y[1] > 31 \/ st.ystridx = Some(1)
        THEN [nothing EXCEPT !.year = Some(y[1]), !.month = Some(y[2]),
                             !.day = Some(y[3])]
        ELSE IF y[1] > 12
        THEN [nothing EXCEPT !.day = Some(y[1]), !.month = Some(y[2]),
                             !.year = Some(y[3])]
        ELSE [nothing EXCEPT !.month = Some(y[1]), !.day = Some(y[2]),
                             !.year = Some(y[3])]

\* parserinfo.convertyear: a two-digit year lands within 50 years of this year
ConvertYear(year, century, thisYear) ==
    IF year < 100 /\ ~century
    THEN LET y1 == year + (thisYear \div 100) * 100
         IN  IF y1 >= thisYear + 50 THEN y1 - 100
             ELSE IF y1 < thisYear - 50 THEN y1 + 100
             ELSE y1
    ELSE year

Or(o, d) == IF IsNone(o) THEN d ELSE Val(o)

Raised == [ok |-> FALSE]
Returned(dt) == [ok |-> TRUE, dt |-> dt]

\* datetime.replace accepts only fields that name a datetime
CheckedDateTime(dt) == IF ValidDateTime(dt) THEN Returned(dt) ELSE Raised

\* parser._build_naive: default.replace(**fields), the default day clipped to
\* the month's length when the string names no day
BuildNaive(st, year, month, dayOpt, default) ==
    CheckedDateTime(
        DateTime(year, month,
                 IF ~IsNone(dayOpt) THEN Val(dayOpt)
                 ELSE IF year \in MinYear..MaxYear /\ month \in 1..12
                         /\ default.day > DaysInMonth(year, month)
                 THEN DaysInMonth(year, month)
                 ELSE default.day,
                 Or(st.hour, default.hour),
                 Or(st.minute, default.minute),
                 Or(st.second, default.second),
                 Or(st.microsecond, default.microsecond)))

\* the end of parser.parse: a string that set no field raises; the others
\* replace the fields of default
FinishParse(st, ymd, default) ==
    IF st.err \/ ymd.err THEN Raised
    ELSE IF /\ IsNone(ymd.year) /\ IsNone(ymd.month) /\ IsNone(ymd.day)
            /\ IsNone(st.hour) /\ IsNone(st.minute) /\ IsNone(st.second)
            /\ IsNone(st.microsecond) /\ IsNone(st.ampm) /\ ~st.tzname
    THEN Raised
    ELSE BuildNaive(st,
                    IF IsNone(ymd.year) THEN default.year
                    ELSE ConvertYear(Val(ymd.year), st.century, default.year),
                    Or(ymd.month, default.month),
                    ymd.day,
                    default)

\* the parser's state after the last token, with the year/month/day it holds
ResolveParse(st, default) == FinishParse(st, ResolveYmd(st), default)

\* parser.parse: the fields read from timestr replace those of default; a
\* string that sets no field, or fields that name no datetime, raise
DateutilParse(timestr, fuzzy, default) ==
    ResolveParse(ParseLoop(Tokenize(timestr), ParseStart, fuzzy), default)

-----------------------------------------------------------------------------
(* parse_relative_date                                                      *)

W_today == <<"t","o","d","a","y">>
W_tomorrow == <<"t","o","m","o","r","r","o","w">>
W_yesterday == <<"y","e","s","t","e","r","d","a","y">>
W_next_week == <<"n","e","x","t"," ","w","e","e","k">>
W_time == <<"t","i","m","e">>
W_date == <<"d","a","t","e">>
W_is == <<"i","s">>
W_was == <<"w","a","s">>
W_wrong == <<"w","r","o","n","g">>
W_incorrect == <<"i","n","c","o","r","r","e","c","t">>
W_hour == <<"h","o","u","r">>
W_day == <<"d","a","y">>
W_in == <<"i","n">>
W_at == <<"a","t">>
W_by == <<"b","y">>
W_am == <<"a","m">>
W_pm == <<"p","m">>
SP == <<" ">>

non_date_phrases ==
    { W_time \o SP \o W_is, W_date \o SP \o W_is,
      W_time \o SP \o W_was, W_date \o SP \o W_was,
      W_wrong \o SP \o W_time, W_wrong \o SP \o W_date,
      W_incorrect \o SP \o W_time, W_incorrect \o SP \o W_date,
      W_time \o SP \o W_wrong, W_date \o SP \o W_wrong,
      W_time \o SP \o W_incorrect, W_date \o SP \o W_incorrect }

\* any(phrase in date_string_lower for phrase in non_date_phrases)
IsComplaint(lower) == \E p \in non_date_phrases : Contains(lower, p)

\* re.search(r'\d{1,2}:\d{2}', s)
HasClock(s) ==
    \E i \in DOMAIN s :
        /\ IsDigit(s[i])
        /\ i + 3 <= Len(s)
        /\ s[i + 1] = ":"
        /\ IsDigit(s[i + 2])
        /\ IsDigit(s[i + 3])

\* re.search(r'\d{1,2}\s*(am|pm)', s)
HasAmPm(s) ==
    \E i \in DOMAIN s :
        /\ IsDigit(s[i])
        /\ \E j \in (i + 1)..Len(s) :
               /\ \A k \in (i + 1)..(j - 1) : IsSpace(s[k])
               /\ (MatchAt(s, W_am, j) \/ MatchAt(s, W_pm, j))

has_time_spec(lower) ==
    \/ Contains(lower, SP \o W_at \o SP)
    \/ HasClock(lower)
    \/ HasAmPm(lower)
    \/ /\ Contains(lower, W_hour)
       /\ \E w \in {W_in, W_at, W_by} : Contains(lower, w)

\* the first index from k on that holds no whitespace (Len(s) + 1 if none)
RECURSIVE SkipSpaces(_, _)
SkipSpaces(s, k) ==
    IF k <= Len(s) /\ IsSpace(s[k]) THEN SkipSpaces(s, k + 1) ELSE k

\* the first index from k on that holds no digit (Len(s) + 1 if none)
RECURSIVE SkipDigits(_, _)
SkipDigits(s, k) ==
    IF k <= Len(s) /\ IsDigit(s[k]) THEN SkipDigits(s, k + 1) ELSE k

\* r'in\s+(\d+)\s+days?' matches at i: "in", whitespace, digits, whitespace,
\* "day"
InDaysAt(s, i) ==
    LET a == SkipSpaces(s, i + 2)
        b == SkipDigits(s, a)
        d == SkipSpaces(s, b)
    IN  /\ MatchAt(s, W_in, i)
        /\ a > i + 2
        /\ b > a
        /\ d > b
        /\ MatchAt(s, W_day, d)

\* re.search(r'in\s+(\d+)\s+days?', s): int(group(1)) of the leftmost match
in_days_match(s) ==
    LET starts == {i \in DOMAIN s : InDaysAt(s, i)}
    IN  IF starts = {} THEN None
        ELSE LET i == CHOOSE x \in starts : \A z \in starts : x <= z
                 a == SkipSpaces(s, i + 2)
             IN  Some(DigitsToInt(SubSeq(s, a, SkipDigits(s, a) - 1)))

\* the outcomes of a call
Ok(dt) == [kind |-> "ok", dt |-> dt]
Err(exc, reason) == [kind |-> "error", exc |-> exc, reason |-> reason]

\* parsed.replace(year=d.year, month=d.month, day=d.day)
ReplaceDate(parsed, d) ==
    LET dt == [parsed EXCEPT !.year = d.year, !.month = d.month, !.day = d.day]
    IN  IF ValidDateTime(dt) THEN Ok(dt) ELSE Err("ValueError", "Unparseable")

\* the parsed time of day moved onto the shortcut's date
OnAnchorDate(parsed, anchor) ==
    IF parsed.ok THEN ReplaceDate(parsed.dt, anchor)
    ELSE Err("ValueError", "Unparseable")

\* the branch shared by "today", "tomorrow" and "yesterday": anchor is the
\* shortcut's day, carrying now's time of day
NamedDay(date_string, anchor, hasTime) ==
    IF hasTime
    THEN OnAnchorDate(DateutilParse(date_string, TRUE, anchor), anchor)
    ELSE Ok(StartOfDay(anchor))

\* DaysAhead without the Monday rule: 7 - isoweekday
DaysAhead_Iso(n) == 7 - (Weekday(n) + 1)

\* days_ahead of the "next week" branch
DaysAhead(n) ==
    LET days_ahead == 7 - Weekday(n)
    IN  IF days_ahead = 0 THEN 7 ELSE days_ahead

\* the trailing rule of both dateutil paths: a relative word without a time of
\* day is reset to the start of the day
NormalizeParsed(parsed, lower, hasTime) ==
    IF /\ ~hasTime
       /\ \/ Contains(lower, W_today)
          \/ Contains(lower, W_tomorrow)
          \/ Contains(lower, W_yesterday)
          \/ (Contains(lower, W_day) /\ Contains(lower, W_in \o SP))
    THEN StartOfDay(parsed)
    ELSE parsed

\* the sanity bound of the fuzzy retry, in days
SanityDays == 36500

\* what the fuzzy retry makes of its parse: the sanity bound on the distance
\* from now, then the start-of-day rule
CheckFuzzy(parsed, lower, hasTime, n) ==
    IF ~parsed.ok THEN Err("ValueError", "Unparseable")
    ELSE IF Abs(DiffDays(parsed.dt, n)) > SanityDays
    THEN Err("ValueError", "Unparseable")
    ELSE Ok(NormalizeParsed(parsed.dt, lower, hasTime))

\* the fuzzy retry
FuzzyParse(date_string, lower, hasTime, n) ==
    CheckFuzzy(DateutilParse(date_string, TRUE, n), lower, hasTime, n)

\* AfterStrict that answers now when neither parse succeeds
AfterStrict_DefaultNow(strict, fuzzy, lower, hasTime, n) ==
    IF strict.ok THEN Ok(NormalizeParsed(strict.dt, lower, hasTime))
    ELSE IF fuzzy.kind = "ok" THEN fuzzy
    ELSE Ok(n)

\* strict first; the fuzzy retry's answer when strict raised
AfterStrict(strict, fuzzy, lower, hasTime, n) ==
    IF strict.ok THEN Ok(NormalizeParsed(strict.dt, lower, hasTime))
    ELSE fuzzy

\* the dateutil fallback: strict first, fuzzy when strict raises
GeneralParse(date_string, lower, hasTime, n) ==
    AfterStrict(DateutilParse(date_string, FALSE, n),
                FuzzyParse(date_string, lower, hasTime, n),
                lower, hasTime, n)

\* InDays without the reset to the start of the day
InDays_KeepTime(days, n) ==
    IF CanAddDays(n, days) THEN Ok(AddDays(n, days))
    ELSE Err("OverflowError", "Overflow")

\* the "in N days" branch
InDays(days, n) ==
    IF CanAddDays(n, days) THEN Ok(StartOfDay(AddDays(n, days)))
    ELSE Err("OverflowError", "Overflow")

\* the branches after the "next week" branch: "in N days", else dateutil
RelativeOrGeneral(inDays, date_string, lower, hasTime, n) ==
    IF ~IsNone(inDays) THEN InDays(Val(inDays), n)
    ELSE GeneralParse(date_string, lower, hasTime, n)

\* the branches after the complaint check
Resolve(date_string, lower, hasTime, n) ==
    IF lower = W_today \/ StartsWith(lower, W_today \o SP)
    THEN NamedDay(date_string, n, hasTime)
    ELSE IF lower = W_tomorrow \/ StartsWith(lower, W_tomorrow \o SP)
    THEN IF CanAddDays(n, 1) THEN NamedDay(date_string, AddDays(n, 1), hasTime)
         ELSE Err("OverflowError", "Overflow")
    ELSE IF lower = W_yesterday \/ StartsWith(lower, W_yesterday \o SP)
    THEN IF CanAddDays(n, -1) THEN NamedDay(date_string, AddDays(n, -1), hasTime)
         ELSE Err("OverflowError", "Overflow")
    ELSE IF StartsWith(lower, W_next_week)
    THEN IF CanAddDays(n, DaysAhead(n))
         THEN Ok(StartOfDay(AddDays(n, DaysAhead(n))))
         ELSE Err("OverflowError", "Overflow")
    ELSE RelativeOrGeneral(in_days_match(lower), date_string, lower, hasTime, n)

\* CheckedResolve with the complaint check skipped for the named days
CheckedResolve_LateCheck(date_string, lower, n) ==
    IF /\ IsComplaint(lower)
       /\ ~\E w \in {W_today, W_tomorrow, W_yesterday} :
              lower = w \/ StartsWith(lower, w \o SP)
    THEN Err("ValueError", "NotADateStatement")
    ELSE Resolve(date_string, lower, has_time_spec(lower), n)

\* the complaint check, then the branches
CheckedResolve(date_string, lower, n) ==
    IF IsComplaint(lower) THEN Err("ValueError", "NotADateStatement")
    ELSE Resolve(date_string, lower, has_time_spec(lower), n)

\* parse_relative_date(date_string), n the value datetime.now() returns in it
parse_relative_date(date_string, n) ==
    IF date_string = << >> THEN Err("ValueError", "Empty")
    ELSE CheckedResolve(date_string, Strip(Lower(date_string)), n)

-----------------------------------------------------------------------------
(* The date expressions and anchors parse_relative_date is run on           *)

AnchorSpan == 6     \* days covered after each base date
MaxInDays == 3      \* "in N days" is tried for every N up to this
MaxBlank == 2       \* whitespace-only strings up to this length

RECURSIVE Cat(_)
Cat(parts) == IF parts = << >> THEN << >> ELSE Head(parts) \o Cat(Tail(parts))

UpperChar(c) ==
    IF IsLower(c)
    THEN UpperSeq[CHOOSE i \in DOMAIN LowerSeq : LowerSeq[i] = c]
    ELSE c
Upper(s) == [i \in DOMAIN s |-> UpperChar(s[i])]

W_week == <<"w","e","e","k">>
W_days == <<"d","a","y","s">>
W_hours == <<"h","o","u","r","s">>
W_noon == <<"n","o","o","n">>
W_hello == <<"h","e","l","l","o">>
W_meet == <<"m","e","e","t">>
W_on == <<"o","n">>
W_due == <<"d","u","e">>
W_someday == <<"s","o","m","e","d","a","y">>
COLON == <<":">>
DASH == <<"-">>
TAB == <<"\t">>

D(n) == IntToDigits(n)
D2(n) == IF n < 10 THEN <<"0">> \o IntToDigits(n) ELSE IntToDigits(n)

\* YYYY-MM-DD
IsoDate(y, m, d) == Cat(<<D(y), DASH, D2(m), DASH, D2(d)>>)

\* the words that open a named-day shortcut
ShortcutWords == {W_today, W_tomorrow, W_yesterday, W_next_week}

\* what may follow a shortcut word: nothing, or a time of day
TimeSuffixes ==
    { << >>,
      Cat(<<SP, W_at, SP, D(3), W_pm>>),             \* " at 3pm"
      Cat(<<SP, D(3), SP, W_pm>>),                   \* " 3 pm"
      Cat(<<SP, W_at, SP, D(15), COLON, D(30)>>),    \* " at 15:30"
      Cat(<<SP, D(9), COLON, D2(5), W_am>>),         \* " 9:05am"
      Cat(<<SP, W_at, SP, D(12), W_am>>),            \* " at 12am"
      Cat(<<SP, W_at, SP, D(7), COLON, D(15), COLON, D(20)>>), \* " at 7:15:20"
      Cat(<<SP, W_in, SP, D(2), SP, W_hours>>),      \* " in 2 hours"
      Cat(<<SP, W_at, SP, W_noon>>) }                \* " at noon"

ShortcutExprs ==
    {w \o t : w \in ShortcutWords, t \in TimeSuffixes}
    \cup {Upper(w) : w \in ShortcutWords}
    \cup {Cat(<<SP, w, TAB>>) : w \in ShortcutWords}
    \cup {<<UpperChar(w[1])>> \o Tail(w) \o Cat(<<SP, W_at, SP, D(3), W_pm>>)
             : w \in ShortcutWords}

\* N of "in N days": the small ones, and those around the 100-year bound and
\* beyond the last representable date
InDaysValues == (0..MaxInDays) \cup {30, 36500, 36501, 40000, 3000000}

InDaysExprs ==
    {Cat(<<W_in, SP, D(k), SP, W_days>>) : k \in InDaysValues}
    \cup {Cat(<<W_in, SP, D(k), SP, W_day>>) : k \in 0..MaxInDays}
    \cup {Upper(Cat(<<W_in, SP, D(k), SP, W_days>>)) : k \in 0..MaxInDays}
    \cup {Cat(<<W_due, SP, W_in, SP, TAB, D(k), SP, SP, W_days, SP, W_at, SP,
                D(3), W_pm>>) : k \in 0..MaxInDays}

\* what a complaint phrase may be embedded in
ComplaintPrefixes ==
    { << >>,
      W_today \o SP,
      Cat(<<W_tomorrow, SP, W_at, SP, D(3), W_pm, SP>>),
      W_yesterday \o SP,
      W_next_week \o SP,
      Cat(<<W_in, SP, D(2), SP, W_days, SP>>),
      IsoDate(2024, 12, 25) \o SP }

ComplaintExprs ==
    {pre \o ph : pre \in ComplaintPrefixes, ph \in non_date_phrases}
    \cup {Upper(ph) : ph \in non_date_phrases}
    \cup {Cat(<<SP, ph, SP, W_today>>) : ph \in non_date_phrases}

RECURSIVE Blanks(_)
Blanks(k) ==
    IF k = 0 THEN {<< >>}
    ELSE Blanks(k - 1)
         \cup {b \o <<c>> : b \in {x \in Blanks(k - 1) : Len(x) = k - 1},
                            c \in {" ", "\t", "\n"}}

\* absolute dates, bare times and text that is no date
GeneralExprs ==
    { IsoDate(2024, 12, 25), IsoDate(1800, 1, 1), IsoDate(2024, 2, 30),
      W_hello,
      Cat(<<W_meet, SP, W_on, SP, IsoDate(2024, 12, 25)>>),
      Cat(<<D(3), W_pm>>),
      Cat(<<D(15), COLON, D(30)>>),
      Cat(<<W_someday, SP, W_in, SP, D(1800)>>),
      Cat(<<W_someday, SP, W_in, SP, D(2030)>>),
      Cat(<<W_meet, SP, W_tomorrow>>),
      Cat(<<W_meet, SP, W_at, SP, D(3), W_pm>>) }

Expressions ==
    ShortcutExprs \cup InDaysExprs \cup ComplaintExprs \cup Blanks(MaxBlank)
    \cup GeneralExprs

\* midnight of the day with ordinal n
DateAt(n) ==
    LET ymd == OrdToYmd(n) IN DateTime(ymd.year, ymd.month, ymd.day, 0, 0, 0, 0)

\* a week from a Monday across the leap day, and one across the new year
AnchorDates ==
    {DateAt(YmdToOrd(2024, 2, 26) + k) : k \in 0..AnchorSpan}
    \cup {DateAt(YmdToOrd(2024, 12, 29) + k) : k \in 0..AnchorSpan}

AnchorTimes ==
    { [hour |-> 0, minute |-> 0, second |-> 0, microsecond |-> 0],
      [hour |-> 10, minute |-> 45, second |-> 30, microsecond |-> 250000],
      [hour |-> 23, minute |-> 59, second |-> 59, microsecond |-> 999999] }

Anchors ==
    {DateTime(d.year, d.month, d.day, t.hour, t.minute, t.second, t.microsecond)
        : d \in AnchorDates, t \in AnchorTimes}

NotCalled == [kind |-> "none"]

-----------------------------------------------------------------------------
(* The resolver run on one expression at one reading of the clock          *)

NoCall == [tool |-> "none"]
NoReply == [kind |-> "none"]

DbInit ==
    /\ store = << >>
    /\ next_id = 1
    /\ clock = 0
    /\ reply = NoReply
    /\ call = NoCall

\* the threads of a Database method, none of them inside one
Workers == 1..2
Idle ==
    [pc |-> "idle", op |-> "none", task_id |-> 0, current_id |-> 0,
     loaded |-> 0, existing_task |-> << >>, existing_session |-> << >>,
     request |-> << >>, ret |-> << >>]
WorkerInit == workers = [w \in Workers |-> Idle]

\* the langgraph programs before their first run
GraphInit ==
    /\ todos = << >>
    /\ messages = << >>
    /\ node = "END"
    /\ threads = << >>

InitDate ==
    /\ expr \in Expressions
    /\ now \in Anchors
    /\ result = NotCalled
    /\ DbInit
    /\ WorkerInit
    /\ GraphInit

\* one call of parse_relative_date(expr), the clock reading now
ParseRelativeDate ==
    /\ result = NotCalled
    /\ result' = parse_relative_date(expr, now)
    /\ UNCHANGED <<expr, now>>
    /\ UNCHANGED <<dbVars, workerVars, graphVars>>

NextDate == ParseRelativeDate

SpecDate == InitDate /\ [][NextDate]_vars

-----------------------------------------------------------------------------
(* Properties of parse_relative_date, checked under SpecDate                *)

Called == result # NotCalled
Lowered == Strip(Lower(expr))
IsMidnight(dt) ==
    dt.hour = 0 /\ dt.minute = 0 /\ dt.second = 0 /\ dt.microsecond = 0

\* a and b lie at most `days` days apart
WithinDays(a, b, days) ==
    LET aFirst == \/ ToOrdinal(a) < ToOrdinal(b)
                  \/ (ToOrdinal(a) = ToOrdinal(b) /\ TimeLess(a, b))
        early == IF aFirst THEN a ELSE b
        late  == IF aFirst THEN b ELSE a
        d     == ToOrdinal(late) - ToOrdinal(early)
    IN  d < days \/ (d = days /\ ~TimeLess(early, late))

\* the result is a valid timestamp on the day `offset` days from now's date
OnDay(offset) ==
    /\ result.kind = "ok"
    /\ ValidDateTime(result.dt)
    /\ ToOrdinal(result.dt) = ToOrdinal(now) + offset

\* the expression is `word` alone or `word` followed by a space and more
Opens(word) == Lowered = word \/ StartsWith(Lowered, word \o SP)

\* C1: every timestamp parse_relative_date returns, on any path, lies within
\* 100 years (36500 days) of now; anything further away is rejected.
C1_WithinHundredYears ==
    result.kind = "ok" => WithinDays(result.dt, now, SanityDays)

TomorrowAt3pm == Cat(<<W_tomorrow, SP, W_at, SP, D(3), W_pm>>)

\* C2: "tomorrow at 3pm" resolves to the day after now's date at exactly
\* 15:00:00.000000 whatever now's minute and second are; and "today",
\* "tomorrow" or "yesterday" followed by a time always lands on the shortcut's
\* date.
C2_TomorrowAtThree ==
    /\ (Called /\ expr = TomorrowAt3pm)
          => /\ OnDay(1)
             /\ result.dt.hour = 15
             /\ result.dt.minute = 0
             /\ result.dt.second = 0
             /\ result.dt.microsecond = 0
    /\ \A k \in {-1, 0, 1} :
          LET w == IF k = 0 THEN W_today
                   ELSE IF k = 1 THEN W_tomorrow ELSE W_yesterday
          IN  (result.kind = "ok" /\ Opens(w) /\ has_time_spec(Lowered))
                 => OnDay(k)

\* the hour each time suffix names
SuffixHours ==
    { <<Cat(<<SP, W_at, SP, D(3), W_pm>>), 15>>,
      <<Cat(<<SP, D(3), SP, W_pm>>), 15>>,
      <<Cat(<<SP, W_at, SP, D(15), COLON, D(30)>>), 15>>,
      <<Cat(<<SP, D(9), COLON, D2(5), W_am>>), 9>>,
      <<Cat(<<SP, W_at, SP, D(7), COLON, D(15), COLON, D(20)>>), 7>> }

\* C3: for every named-day shortcut, an expression that gives a time of day
\* resolves to that time of day on the shortcut's date; the result is reset to
\* 00:00:00 only when no time is given ("next week at 3pm" is not midnight).
C3_ShortcutKeepsTime ==
    \A w \in ShortcutWords : \A sh \in SuffixHours :
        (Called /\ expr = w \o sh[1])
            => /\ has_time_spec(Lowered)
               /\ result.kind = "ok"
               /\ result.dt.hour = sh[2]
               /\ ~IsMidnight(result.dt)

\* the complaint phrases the contract names
NamedComplaints ==
    { W_time \o SP \o W_is, W_date \o SP \o W_is,
      W_wrong \o SP \o W_time, W_wrong \o SP \o W_date,
      W_time \o SP \o W_incorrect, W_date \o SP \o W_incorrect }

\* C4: an expression whose lower-cased, trimmed text contains a complaint
\* phrase is rejected as not a date statement, also when it opens with a
\* named day, matches "in N days" or holds a parseable date.
C4_ComplaintRejected ==
    (Called /\ \E p \in NamedComplaints : Contains(Lowered, p))
        => (result.kind = "error" /\ result.reason = "NotADateStatement")

\* C4 witness: a complaint that opens with "tomorrow" and a time was rejected
C4_Witness ==
    /\ result.kind = "error"
    /\ result.reason = "NotADateStatement"
    /\ Opens(W_tomorrow)
    /\ has_time_spec(Lowered)

\* C5: the empty string and every whitespace-only string are rejected,
\* whatever now is.
C5_BlankRejected ==
    (Called /\ \A i \in DOMAIN expr : IsSpace(expr[i])) => result.kind = "error"

\* C5 witness: a string of two whitespace characters was rejected
C5_Witness ==
    /\ Len(expr) = 2
    /\ \A i \in DOMAIN expr : IsSpace(expr[i])
    /\ result.kind = "error"

\* C6: "next week" resolves to 00:00:00 of the first Monday strictly after
\* now's date: 1 to 7 days ahead, a Monday, and 7 days ahead when now is a
\* Monday.
C6_NextWeekMonday ==
    (Called /\ Lowered = W_next_week)
        => /\ result.kind = "ok"
           /\ ValidDateTime(result.dt)
           /\ IsMidnight(result.dt)
           /\ Weekday(result.dt) = 0
           /\ ToOrdinal(result.dt) - ToOrdinal(now) \in 1..7
           /\ (Weekday(now) = 0 => ToOrdinal(result.dt) = ToOrdinal(now) + 7)

\* C6 witness: "next week" asked on a Monday gave the Monday after
C6_Witness ==
    /\ Lowered = W_next_week
    /\ Weekday(now) = 0
    /\ result.kind = "ok"
    /\ ToOrdinal(result.dt) = ToOrdinal(now) + 7

\* C7: the bare words "today", "tomorrow" and "yesterday" resolve to
\* 00:00:00.000000 of now's date plus 0, +1 and -1 day, across month and year
\* boundaries too.
C7_BareNamedDay ==
    /\ (Called /\ Lowered = W_today) => (OnDay(0) /\ IsMidnight(result.dt))
    /\ (Called /\ Lowered = W_tomorrow) => (OnDay(1) /\ IsMidnight(result.dt))
    /\ (Called /\ Lowered = W_yesterday) => (OnDay(-1) /\ IsMidnight(result.dt))

\* C7 witness: "tomorrow" on 31 December gave 1 January of the next year
C7_Witness ==
    /\ Lowered = W_tomorrow
    /\ now.month = 12 /\ now.day = 31
    /\ result.kind = "ok"
    /\ result.dt.year = now.year + 1 /\ result.dt.month = 1 /\ result.dt.day = 1

\* the expression is "in N day(s)" with no complaint and no named-day prefix
IsInDaysExpr ==
    /\ ~IsNone(in_days_match(Lowered))
    /\ ~IsComplaint(Lowered)
    /\ \A w \in {W_today, W_tomorrow, W_yesterday} : ~Opens(w)
    /\ ~StartsWith(Lowered, W_next_week)

\* the N the expression names, read off the text digit by digit
NamedDays ==
    LET i == CHOOSE x \in DOMAIN Lowered :
                 /\ IsDigit(Lowered[x])
                 /\ \A y \in 1..(x - 1) : ~IsDigit(Lowered[y])
        j == CHOOSE x \in i..Len(Lowered) :
                 /\ \A y \in i..x : IsDigit(Lowered[y])
                 /\ (x = Len(Lowered) \/ ~IsDigit(Lowered[x + 1]))
    IN  DigitsToInt(SubSeq(Lowered, i, j))

C19_ClockIndependent ==
    Called => \A n \in Anchors : parse_relative_date(expr, n) = result

-----------------------------------------------------------------------------
(* models.py and the Chroma collection behind database.py.  The collection  *)
(* is the sequence of its metadata records in insertion order, the order    *)
(* collection.get() lists them in.                                         *)

W_low == <<"l","o","w">>
W_medium == <<"m","e","d","i","u","m">>
W_high == <<"h","i","g","h">>
W_work == <<"w","o","r","k">>
W_personal == <<"p","e","r","s","o","n","a","l">>
W_administrative == <<"a","d","m","i","n","i","s","t","r","a","t","i","v","e">>
W_admin == <<"a","d","m","i","n">>
W_shopping == <<"s","h","o","p","p","i","n","g">>
W_shop == <<"s","h","o","p">>
W_urgent == <<"u","r","g","e","n","t">>

PriorityValues == {"low", "medium", "high"}
CategoryValues == {"work", "personal", "administrative", "shopping"}

\* Priority(value) and Category(value): the member whose value is the text
Priority(text) ==
    IF text = W_low THEN Some("low")
    ELSE IF text = W_medium THEN Some("medium")
    ELSE IF text = W_high THEN Some("high")
    ELSE None

Category(text) ==
    IF text = W_work THEN Some("work")
    ELSE IF text = W_personal THEN Some("personal")
    ELSE IF text = W_administrative THEN Some("administrative")
    ELSE IF text = W_shopping THEN Some("shopping")
    ELSE None

\* member.value
EnumText(member) ==
    CASE member = "low" -> W_low
      [] member = "medium" -> W_medium
      [] member = "high" -> W_high
      [] member = "work" -> W_work
      [] member = "personal" -> W_personal
      [] member = "administrative" -> W_administrative
      [] member = "shopping" -> W_shopping

\* truth value of an Optional[int] and of an Optional[str]
IntTruthy(o) == ~IsNone(o) /\ Val(o) # 0
StrTruthy(o) == ~IsNone(o) /\ Val(o) # << >>

\* str.strip() leaves nothing
IsBlank(text) == Strip(text) = << >>

TaskCreate(title, priority, scheduled_time, category) ==
    [title |-> title, priority |-> priority,
     scheduled_time |-> scheduled_time, category |-> category]

TaskUpdate(title, priority, scheduled_time, category) ==
    [title |-> title, priority |-> priority,
     scheduled_time |-> scheduled_time, category |-> category]

\* zero-padded decimal of width w
RECURSIVE Pad(_, _)
Pad(n, w) == IF w = 0 THEN << >> ELSE Pad(n \div 10, w - 1) \o <<DigitSeq[(n % 10) + 1]>>

\* datetime.isoformat(): the microseconds are written only when not zero
isoformat(dt) ==
    Cat(<<Pad(dt.year, 4), <<"-">>, Pad(dt.month, 2), <<"-">>, Pad(dt.day, 2),
          <<"T">>, Pad(dt.hour, 2), <<":">>, Pad(dt.minute, 2), <<":">>,
          Pad(dt.second, 2),
          IF dt.microsecond = 0 THEN << >>
          ELSE <<".">> \o Pad(dt.microsecond, 6)>>)

\* datetime.fromisoformat() of a text isoformat() wrote
fromisoformat(text) ==
    DateTime(DigitsToInt(SubSeq(text, 1, 4)),
             DigitsToInt(SubSeq(text, 6, 7)),
             DigitsToInt(SubSeq(text, 9, 10)),
             DigitsToInt(SubSeq(text, 12, 13)),
             DigitsToInt(SubSeq(text, 15, 16)),
             DigitsToInt(SubSeq(text, 18, 19)),
             IF Len(text) > 19 THEN DigitsToInt(SubSeq(text, 21, 26)) ELSE 0)

\* a < b on datetimes
Earlier(a, b) ==
    \/ ToOrdinal(a) < ToOrdinal(b)
    \/ ToOrdinal(a) = ToOrdinal(b) /\ TimeLess(a, b)

\* collection.get(ids=[id]), collection.get(where={"session_id": s}),
\* collection.delete(ids=[id]), collection.add(...)
CollectionGet(coll, id) == SelectSeq(coll, LAMBDA m : m.id = id)
CollectionWhere(coll, session_id) ==
    SelectSeq(coll, LAMBDA m : m.session_id = Some(session_id))
CollectionDelete(coll, id) == SelectSeq(coll, LAMBDA m : m.id # id)
CollectionAdd(coll, metadata) == Append(coll, metadata)

\* collection.query(query_embeddings, n_results, where): the n nearest
\* records; rank lists the collection by distance from the query, nearest
\* first, as the embeddings decide it
n_results == 10
Ranked(coll, rank) == [i \in 1..Len(coll) |-> coll[rank[i]]]
FirstN(seq, n) == SubSeq(seq, 1, IF Len(seq) < n THEN Len(seq) ELSE n)
CollectionQuery(coll, rank, session_id) ==
    FirstN(IF StrTruthy(session_id)
           THEN CollectionWhere(Ranked(coll, rank), Val(session_id))
           ELSE Ranked(coll, rank),
           n_results)

-----------------------------------------------------------------------------
(* database.py: Database over the collection                                *)

\* _task_to_metadata
task_to_metadata(task_id, task, created_at, session_id) ==
    [id |-> IntToDigits(task_id),
     title |-> task.title,
     priority |-> EnumText(task.priority),
     created_at |-> isoformat(created_at),
     scheduled_time |-> IF IsNone(task.scheduled_time) THEN None
                        ELSE Some(isoformat(Val(task.scheduled_time))),
     category |-> IF IsNone(task.category) THEN None
                  ELSE Some(EnumText(Val(task.category))),
     session_id |-> IF StrTruthy(session_id) THEN session_id ELSE None]

\* _parse_category
parse_category(category_value) ==
    IF ~StrTruthy(category_value) THEN None
    ELSE Category(Lower(Val(category_value)))

\* _metadata_to_task
metadata_to_task(metadata) ==
    [id |-> DigitsToInt(metadata.id),
     title |-> metadata.title,
     scheduled_time |-> IF StrTruthy(metadata.scheduled_time)
                        THEN Some(fromisoformat(Val(metadata.scheduled_time)))
                        ELSE None,
     priority |-> Val(Priority(metadata.priority)),
     category |-> parse_category(metadata.category),
     created_at |-> fromisoformat(metadata.created_at)]

\* str() of a task id
IntStr(n) == IF n < 0 THEN <<"-">> \o IntToDigits(-n) ELSE IntToDigits(n)

\* an ownership test that lets every caller through
OtherSession_Open(metadata, session_id) == FALSE

\* the ownership test of get_task, get_all_tasks and search_tasks
OtherSession(metadata, session_id) ==
    /\ StrTruthy(session_id)
    /\ StrTruthy(metadata.session_id)
    /\ metadata.session_id # session_id

\* Database.get_task
get_task(coll, task_id, session_id) ==
    IF CollectionGet(coll, IntStr(task_id)) = << >> THEN None
    ELSE IF OtherSession(CollectionGet(coll, IntStr(task_id))[1], session_id)
    THEN None
    ELSE Some(metadata_to_task(CollectionGet(coll, IntStr(task_id))[1]))

\* tasks.sort(key=created_at, reverse=True): a stable sort, so tasks of equal
\* created_at keep the order they came in
InsertByCreated(sorted, t) ==
    SelectSeq(sorted, LAMBDA u : ~Earlier(u.created_at, t.created_at))
    \o <<t>>
    \o SelectSeq(sorted, LAMBDA u : Earlier(u.created_at, t.created_at))

RECURSIVE SortByCreated(_)
SortByCreated(tasks) ==
    IF tasks = << >> THEN << >>
    ELSE InsertByCreated(SortByCreated(SubSeq(tasks, 1, Len(tasks) - 1)),
                         tasks[Len(tasks)])

MapTasks(metadatas) == [i \in 1..Len(metadatas) |-> metadata_to_task(metadatas[i])]

\* Database.get_all_tasks without a category filter
get_all_tasks(coll, session_id) ==
    SortByCreated(MapTasks(
        SelectSeq(IF StrTruthy(session_id)
                  THEN CollectionWhere(coll, Val(session_id))
                  ELSE coll,
                  LAMBDA m : ~OtherSession(m, session_id))))

\* Database.search_tasks
search_tasks(coll, query, session_id, rank) ==
    IF IsBlank(query) THEN << >>
    ELSE SortByCreated(MapTasks(
             SelectSeq(CollectionQuery(coll, rank, session_id),
                       LAMBDA m : ~OtherSession(m, session_id))))

\* Database.create_task: the collection after the add; its return value is
\* get_task(task_id, session_id) on that collection
create_task(coll, task_id, task, created_at, session_id) ==
    CollectionAdd(coll, task_to_metadata(task_id, task, created_at, session_id))

\* updated_metadata that stamps the record again
updated_metadata_Restamp(existing_task, existing_metadata, task_update) ==
    [task_to_metadata(existing_task.id,
                      TaskCreate(IF ~IsNone(task_update.title)
                                 THEN Val(task_update.title)
                                 ELSE existing_task.title,
                                 existing_task.priority,
                                 existing_task.scheduled_time,
                                 existing_task.category),
                      [existing_task.created_at EXCEPT !.second = 59],
                      existing_metadata.session_id)
     EXCEPT !.id = IntToDigits(existing_task.id)]

\* the metadata update_task re-adds: the update's fields where given, the
\* existing task's elsewhere, created_at and session_id kept
updated_metadata(existing_task, existing_metadata, task_update) ==
    [id |-> IntToDigits(existing_task.id),
     title |-> IF ~IsNone(task_update.title) THEN Val(task_update.title)
               ELSE existing_task.title,
     priority |-> EnumText(IF ~IsNone(task_update.priority)
                           THEN Val(task_update.priority)
                           ELSE existing_task.priority),
     created_at |-> isoformat(existing_task.created_at),
     scheduled_time |->
         IF ~IsNone(task_update.scheduled_time)
         THEN Some(isoformat(Val(task_update.scheduled_time)))
         ELSE IF ~IsNone(existing_task.scheduled_time)
         THEN Some(isoformat(Val(existing_task.scheduled_time)))
         ELSE None,
     category |-> IF ~IsNone(task_update.category)
                  THEN Some(EnumText(Val(task_update.category)))
                  ELSE IF ~IsNone(existing_task.category)
                  THEN Some(EnumText(Val(existing_task.category)))
                  ELSE None,
     session_id |-> IF StrTruthy(existing_metadata.session_id)
                    THEN existing_metadata.session_id ELSE None]

\* a re-add that builds the record from the update alone: a scheduled_time or
\* category the update does not give is cleared
Readd_ClearsUnset(coll, existing_task, task_update) ==
    CollectionAdd(
        CollectionDelete(coll, IntToDigits(existing_task.id)),
        updated_metadata([existing_task EXCEPT !.scheduled_time = None,
                                               !.category = None],
                         CollectionGet(coll, IntToDigits(existing_task.id))[1],
                         task_update))

\* the delete and re-add of update_task
Readd(coll, existing_task, task_update) ==
    CollectionAdd(
        CollectionDelete(coll, IntToDigits(existing_task.id)),
        updated_metadata(existing_task,
                         CollectionGet(coll, IntToDigits(existing_task.id))[1],
                         task_update))

\* Database.update_task: the collection after the call; its return value is
\* None for a task get_task does not return, else get_task on that collection
update_task(coll, task_id, task_update, session_id) ==
    IF IsNone(get_task(coll, task_id, session_id)) THEN coll
    ELSE Readd(coll, Val(get_task(coll, task_id, session_id)), task_update)

\* delete_task that removes the oldest record whatever the id
delete_task_Oldest(coll, task_id, session_id) ==
    IF coll = << >> THEN coll ELSE Tail(coll)

\* Database.delete_task: the collection after the call
delete_task(coll, task_id, session_id) ==
    IF StrTruthy(session_id) /\ IsNone(get_task(coll, task_id, session_id))
    THEN coll
    ELSE CollectionDelete(coll, IntStr(task_id))

-----------------------------------------------------------------------------
(* The tools: agent.py (no session) and agent_tools.py (bound to a session) *)
(* Each tool is the collection it leaves and the reply it returns.  n is    *)
(* the reading of datetime.now() inside the call, rank the order in which   *)
(* the embeddings list the collection for the call's title query.          *)

Reply(kind, id) == [kind |-> kind, id |-> id]
Out(coll, r) == [store |-> coll, reply |-> r]
Created(coll, nid, r) == [store |-> coll, next_id |-> nid, reply |-> r]

\* a priority_map.get that answers LOW for a key it does not hold
PriorityMapGet_Low(priority, default) ==
    IF IsNone(Priority(Lower(priority))) THEN Some("low")
    ELSE Priority(Lower(priority))

\* priority_map.get(priority.lower(), default)
PriorityMapGet(priority, default) ==
    IF IsNone(Priority(Lower(priority))) THEN default
    ELSE Priority(Lower(priority))

\* category_map.get(category.strip().lower()) of agent_tools.py
CategoryMapGet(category) ==
    IF Strip(Lower(category)) = W_admin THEN Some("administrative")
    ELSE IF Strip(Lower(category)) = W_shop THEN Some("shopping")
    ELSE Category(Strip(Lower(category)))

\* agent.py: date_parser.parse(scheduled_time) with its error swallowed;
\* dateutil's default is today at midnight
SwallowedParse(parsed) == IF parsed.ok THEN Some(parsed.dt) ELSE None
AgentSchedule(scheduled_time, n) ==
    IF StrTruthy(scheduled_time)
    THEN SwallowedParse(DateutilParse(Val(scheduled_time), FALSE, StartOfDay(n)))
    ELSE None

\* pydantic's validation of an Optional[Category] field given a str
ValidCategory(category) == IsNone(category) \/ ~IsNone(Category(Val(category)))
CategoryField(category) ==
    IF IsNone(category) THEN None ELSE Category(Val(category))

\* agent.py create_task
Agent_create_task(coll, nid, title, priority, scheduled_time, category, created_at, n) ==
    IF ~ValidCategory(category) THEN Created(coll, nid, Reply("error", 0))
    ELSE Created(create_task(coll, nid,
                             TaskCreate(title,
                                        Val(PriorityMapGet(priority, Some("medium"))),
                                        AgentSchedule(scheduled_time, n),
                                        CategoryField(category)),
                             created_at, None),
                 nid + 1,
                 Reply("created", nid))

\* agent.py update_task: update_data, the category still the caller's text
AgentUpdateData(new_title, priority, scheduled_time, category, n) ==
    [title |-> IF StrTruthy(new_title) THEN new_title ELSE None,
     priority |-> IF StrTruthy(priority)
                  THEN PriorityMapGet(Val(priority), Some("medium"))
                  ELSE None,
     scheduled_time |-> AgentSchedule(scheduled_time, n),
     category |-> IF StrTruthy(category) THEN category ELSE None]

NoFields(data) ==
    /\ IsNone(data.title) /\ IsNone(data.priority)
    /\ IsNone(data.scheduled_time) /\ IsNone(data.category)

\* agent.py update_task from "if not update_data" on
AgentApplyUpdate(coll, task_id, data) ==
    IF NoFields(data) THEN Out(coll, Reply("no_fields", 0))
    ELSE IF ~ValidCategory(data.category) THEN Out(coll, Reply("error", 0))
    ELSE IF IsNone(get_task(coll, task_id, None))
    THEN Out(coll, Reply("not_found_id", task_id))
    ELSE Out(update_task(coll, task_id,
                         TaskUpdate(data.title, data.priority,
                                    data.scheduled_time,
                                    CategoryField(data.category)),
                         None),
             Reply("updated", task_id))

\* agent.py update_task
Agent_update_task(coll, task_id, task_title, new_title, priority, scheduled_time, category, rank, n) ==
    IF ~IntTruthy(task_id) /\ StrTruthy(task_title)
    THEN IF search_tasks(coll, Val(task_title), None, rank) = << >>
         THEN Out(coll, Reply("not_found_title", 0))
         ELSE AgentApplyUpdate(
                  coll, search_tasks(coll, Val(task_title), None, rank)[1].id,
                  AgentUpdateData(new_title, priority, scheduled_time, category, n))
    ELSE IF ~IntTruthy(task_id) THEN Out(coll, Reply("need_spec", 0))
    ELSE AgentApplyUpdate(
             coll, Val(task_id),
             AgentUpdateData(new_title, priority, scheduled_time, category, n))

\* DeleteChecked without the existence check
DeleteChecked_NoCheck(coll, task_id, session_id) ==
    Out(delete_task(coll, task_id, session_id), Reply("deleted", task_id))

\* the end of both delete_task tools: the existence check, then the delete
DeleteChecked(coll, task_id, session_id) ==
    IF IsNone(get_task(coll, task_id, session_id))
    THEN Out(coll, Reply("not_found_id", task_id))
    ELSE Out(delete_task(coll, task_id, session_id), Reply("deleted", task_id))

\* AgentDeleteById without the "Please specify" return
AgentDeleteById_NoGuard(coll, task_id, task_title, rank) ==
    IF ~IntTruthy(task_id) /\ StrTruthy(task_title)
    THEN IF search_tasks(coll, Val(task_title), None, rank) = << >>
         THEN Out(coll, Reply("not_found_title", 0))
         ELSE DeleteChecked(
                  coll, search_tasks(coll, Val(task_title), None, rank)[1].id, None)
    ELSE DeleteChecked(coll, IF IsNone(task_id) THEN 0 ELSE Val(task_id), None)

\* agent.py delete_task after the task_number branch
AgentDeleteById(coll, task_id, task_title, rank) ==
    IF ~IntTruthy(task_id) /\ StrTruthy(task_title)
    THEN IF search_tasks(coll, Val(task_title), None, rank) = << >>
         THEN Out(coll, Reply("not_found_title", 0))
         ELSE DeleteChecked(
                  coll, search_tasks(coll, Val(task_title), None, rank)[1].id, None)
    ELSE IF ~IntTruthy(task_id) THEN Out(coll, Reply("need_spec", 0))
    ELSE DeleteChecked(coll, Val(task_id), None)

\* agent.py delete_task: a task_number that is neither None nor 0 is a
\* position in get_all_tasks() and replaces task_id
Agent_delete_task(coll, task_id, task_title, task_number, rank) ==
    IF IntTruthy(task_number)
    THEN IF 1 <= Val(task_number) /\ Val(task_number) <= Len(get_all_tasks(coll, None))
         THEN AgentDeleteById(
                  coll, Some(get_all_tasks(coll, None)[Val(task_number)].id),
                  task_title, rank)
         ELSE Out(coll, Reply("not_found_number", Val(task_number)))
    ELSE AgentDeleteById(coll, task_id, task_title, rank)

\* run_async(x): database.py's methods are plain functions, so x is already
\* their result when run_async gets it, and run_async raises on a value that
\* is not awaitable (TypeError from run_until_complete, ValueError from
\* asyncio.run); the tool's except clause turns either into an error reply
RunAsyncReply == Reply("error", 0)

\* agent_tools.py: scheduled_time run through parse_relative_date
ToolsSchedule(scheduled_time, n) ==
    IF StrTruthy(scheduled_time) THEN parse_relative_date(Val(scheduled_time), n)
    ELSE [kind |-> "absent"]
ScheduleValue(sched) == IF sched.kind = "ok" THEN Some(sched.dt) ELSE None

\* ScheduleReply of a tool whose only except clause is "except ValueError":
\* any other exception leaves the tool
ScheduleReply_ValueErrorOnly(sched) ==
    Reply(IF sched.exc = "ValueError" THEN "bad_time" ELSE "raised", 0)

\* the reply to a scheduled_time that raised: ValueError is answered by the
\* inner except, anything else by the tool's last except
ScheduleReply(sched) ==
    Reply(IF sched.exc = "ValueError" THEN "bad_time" ELSE "error", 0)

ToolsCategory(category) ==
    IF StrTruthy(category) THEN CategoryMapGet(Val(category)) ELSE None
BadCategory(category) == StrTruthy(category) /\ IsNone(CategoryMapGet(Val(category)))

\* agent_tools.py create_task from "Parse scheduled time" on
ToolsCreateParsed(coll, nid, title, priority, sched, category, created_at, session_id) ==
    IF sched.kind = "error" THEN Created(coll, nid, ScheduleReply(sched))
    ELSE Created(create_task(coll, nid,
                             TaskCreate(Strip(title),
                                        Val(PriorityMapGet(priority, Some("medium"))),
                                        ScheduleValue(sched),
                                        ToolsCategory(category)),
                             created_at, session_id),
                 nid + 1,
                 RunAsyncReply)

\* agent_tools.py create_task
Tools_create_task(coll, nid, title, priority, scheduled_time, category, created_at, session_id, n) ==
    IF IsBlank(title) THEN Created(coll, nid, Reply("empty_title", 0))
    ELSE IF BadCategory(category) THEN Created(coll, nid, Reply("invalid_category", 0))
    ELSE ToolsCreateParsed(coll, nid, title, priority,
                           ToolsSchedule(scheduled_time, n),
                           category, created_at, session_id)

\* agent_tools.py update_task: update_data
ToolsUpdateData(new_title, priority, sched, category) ==
    TaskUpdate(IF StrTruthy(new_title) THEN Some(Strip(Val(new_title))) ELSE None,
               IF StrTruthy(priority) THEN Priority(Lower(Val(priority))) ELSE None,
               ScheduleValue(sched),
               ToolsCategory(category))

\* agent_tools.py update_task from the existence check on
ToolsApplyUpdate(coll, task_id, new_title, priority, sched, category, session_id) ==
    IF IsNone(get_task(coll, task_id, session_id))
    THEN Out(coll, Reply("not_found_id", task_id))
    ELSE IF StrTruthy(new_title) /\ IsBlank(Val(new_title))
    THEN Out(coll, Reply("empty_title", 0))
    ELSE IF StrTruthy(priority) /\ IsNone(Priority(Lower(Val(priority))))
    THEN Out(coll, Reply("invalid_priority", 0))
    ELSE IF sched.kind = "error" THEN Out(coll, ScheduleReply(sched))
    ELSE IF BadCategory(category) THEN Out(coll, Reply("invalid_category", 0))
    ELSE IF NoFields(ToolsUpdateData(new_title, priority, sched, category))
    THEN Out(coll, Reply("no_fields", 0))
    ELSE Out(update_task(coll, task_id,
                         ToolsUpdateData(new_title, priority, sched, category),
                         session_id),
             RunAsyncReply)

\* agent_tools.py update_task; the title search ends in run_async
Tools_update_task(coll, task_id, task_title, new_title, priority, scheduled_time, category, session_id, n) ==
    IF ~IntTruthy(task_id) /\ StrTruthy(task_title) THEN Out(coll, RunAsyncReply)
    ELSE IF ~IntTruthy(task_id) THEN Out(coll, Reply("need_spec", 0))
    ELSE ToolsApplyUpdate(coll, Val(task_id), new_title, priority,
                          ToolsSchedule(scheduled_time, n), category, session_id)

\* agent_tools.py delete_task after the task_number branch
ToolsDeleteById(coll, task_id, task_title, session_id) ==
    IF ~IntTruthy(task_id) /\ StrTruthy(task_title) THEN Out(coll, RunAsyncReply)
    ELSE IF ~IntTruthy(task_id) THEN Out(coll, Reply("need_spec", 0))
    ELSE DeleteChecked(coll, Val(task_id), session_id)

\* agent_tools.py delete_task: task_number stands for the id when no task_id
\* is given
Tools_delete_task(coll, task_id, task_title, task_number, session_id) ==
    ToolsDeleteById(coll,
                    IF IntTruthy(task_number) /\ ~IntTruthy(task_id)
                    THEN task_number ELSE task_id,
                    task_title, session_id)

-----------------------------------------------------------------------------
(* The tools run against one store                                         *)

MaxTasks == 2

Sessions == {<<"s","1">>}

\* the arguments of the create calls
CreateRequests ==
    {[title |-> <<"a">>, priority |-> W_medium,
      scheduled_time |-> None, category |-> None],
     [title |-> <<"b">>, priority |-> Upper(W_high),
      scheduled_time |-> Some(IsoDate(2024, 3, 5)), category |-> Some(W_work)],
     [title |-> <<" ">>, priority |-> W_low,
      scheduled_time |-> None, category |-> Some(Upper(W_work))],
     [title |-> <<"a">>, priority |-> W_medium,
      scheduled_time |-> Some(Cat(<<W_in, SP, D(3000000), SP, W_days>>)),
      category |-> None],
     [title |-> <<"a">>, priority |-> W_urgent,
      scheduled_time |-> None, category |-> None]}

\* the field arguments of the update calls
UpdateRequests ==
    {[new_title |-> Some(<<"b">>), priority |-> Some(Upper(W_high)),
      scheduled_time |-> Some(IsoDate(2024, 3, 5)), category |-> Some(W_work)],
     [new_title |-> None, priority |-> None,
      scheduled_time |-> Some(W_someday), category |-> None],
     [new_title |-> Some(<<"a">>), priority |-> None,
      scheduled_time |-> None, category |-> Some(Upper(W_work))],
     [new_title |-> None, priority |-> Some(W_urgent),
      scheduled_time |-> None, category |-> Some(Upper(W_work))]}

TaskIdArgs == {None} \cup {Some(i) : i \in 1..MaxTasks}
TitleArgs == {None, Some(<<"a">>)}
NumberArgs == {None} \cup {Some(k) : k \in 0..(MaxTasks + 1)}

\* the orders in which the embeddings may list the collection for a title
\* query; a call without one consults no embedding
Ranks(coll, task_title) ==
    IF StrTruthy(task_title) THEN Permutations(1..Len(coll))
    ELSE {[i \in 1..Len(coll) |-> i]}

\* datetime.now() in create_task: created_at stamps do not go back, and two
\* may be equal
StoreNow == DateTime(2024, 2, 28, 10, 45, 0, 250000)
Stamp(c) == [StoreNow EXCEPT !.second = c]

Call(tool, session_id, task_id, task_title, task_number, request) ==
    [tool |-> tool, session_id |-> session_id, task_id |-> task_id,
     task_title |-> task_title, task_number |-> task_number,
     request |-> request]

Init ==
    /\ expr = << >>
    /\ now = StoreNow
    /\ result = NotCalled
    /\ DbInit
    /\ WorkerInit
    /\ GraphInit

\* the state after a create call
AfterCreate(out, c, tick) ==
    /\ store' = out.store
    /\ next_id' = out.next_id
    /\ clock' = IF out.next_id = next_id THEN clock ELSE clock + tick
    /\ reply' = out.reply
    /\ call' = c
    /\ UNCHANGED <<dateVars, workerVars, graphVars>>

\* the state after an update or delete call
AfterCall(out, c) ==
    /\ store' = out.store
    /\ reply' = out.reply
    /\ call' = c
    /\ UNCHANGED <<next_id, clock>>
    /\ UNCHANGED <<dateVars, workerVars, graphVars>>

AgentCreateTask ==
    /\ call = NoCall
    /\ next_id <= MaxTasks
    /\ \E req \in CreateRequests, tick \in 0..1 :
          AfterCreate(Agent_create_task(store, next_id, req.title, req.priority,
                                        req.scheduled_time, req.category,
                                        Stamp(clock), now),
                      Call("agent.create_task", None, None, None, None, req),
                      tick)

AgentUpdateTask ==
    /\ call = NoCall
    /\ \E id \in TaskIdArgs, title \in TitleArgs, req \in UpdateRequests :
       \E rank \in Ranks(store, title) :
           AfterCall(Agent_update_task(store, id, title, req.new_title, req.priority,
                                       req.scheduled_time, req.category, rank, now),
                     Call("agent.update_task", None, id, title, None, req))

AgentDeleteTask ==
    /\ call = NoCall
    /\ \E id \in TaskIdArgs, title \in TitleArgs, number \in NumberArgs :
       \E rank \in Ranks(store, title) :
           AfterCall(Agent_delete_task(store, id, title, number, rank),
                     Call("agent.delete_task", None, id, title, number, None))

ToolsCreateTask ==
    /\ call = NoCall
    /\ next_id <= MaxTasks
    /\ \E s \in Sessions, req \in CreateRequests, tick \in 0..1 :
          AfterCreate(Tools_create_task(store, next_id, req.title, req.priority,
                                        req.scheduled_time, req.category,
                                        Stamp(clock), Some(s), now),
                      Call("tools.create_task", Some(s), None, None, None, req),
                      tick)

ToolsUpdateTask ==
    /\ call = NoCall
    /\ \E s \in Sessions, id \in TaskIdArgs, title \in TitleArgs,
          req \in UpdateRequests :
           AfterCall(Tools_update_task(store, id, title, req.new_title, req.priority,
                                       req.scheduled_time, req.category, Some(s), now),
                     Call("tools.update_task", Some(s), id, title, None, req))

ToolsDeleteTask ==
    /\ call = NoCall
    /\ \E s \in Sessions, id \in TaskIdArgs, title \in TitleArgs,
          number \in NumberArgs :
           AfterCall(Tools_delete_task(store, id, title, number, Some(s)),
                     Call("tools.delete_task", Some(s), id, title, number, None))

\* the reply goes back to the agent, which is then free to call again
ReturnReply ==
    /\ call # NoCall
    /\ call' = NoCall
    /\ reply' = NoReply
    /\ UNCHANGED <<store, next_id, clock>>
    /\ UNCHANGED <<dateVars, workerVars, graphVars>>

Next ==
    \/ ReturnReply
    \/ AgentCreateTask
    \/ AgentUpdateTask
    \/ AgentDeleteTask
    \/ ToolsCreateTask
    \/ ToolsUpdateTask
    \/ ToolsDeleteTask

Spec == Init /\ [][Next]_vars

-----------------------------------------------------------------------------
(* Properties of the delete_task tools, checked under Spec                  *)

\* the ids the collection holds, and the collection without one of them
StoredIds(coll) == {DigitsToInt(coll[i].id) : i \in DOMAIN coll}
Without(coll, id) == SelectSeq(coll, LAMBDA m : DigitsToInt(m.id) # id)

\* the step is a call of one of the two delete_task tools
DeleteCalled ==
    call = NoCall /\ call'.tool \in {"agent.delete_task", "tools.delete_task"}

\* C9: in both delete_task tools, a call that supplies task_id acts on the
\* task with that id whatever task_number and task_title it also supplies:
\* a stored id is deleted and reported deleted, an id not stored is reported
\* not found and nothing is deleted.
C9_ExplicitIdWins ==
    [][(DeleteCalled /\ ~IsNone(call'.task_id)) =>
          IF Val(call'.task_id) \in StoredIds(store)
          THEN /\ store' = Without(store, Val(call'.task_id))
               /\ reply' = Reply("deleted", Val(call'.task_id))
          ELSE /\ store' = store
               /\ reply' = Reply("not_found_id", Val(call'.task_id))]_vars

\* how many stored tasks were created after, and not before, the task at i
Newer(coll, i) ==
    Cardinality({j \in DOMAIN coll :
        Earlier(fromisoformat(coll[i].created_at), fromisoformat(coll[j].created_at))})
NotOlder(coll, i) ==
    Cardinality({j \in DOMAIN coll :
        ~Earlier(fromisoformat(coll[j].created_at), fromisoformat(coll[i].created_at))})

\* C10: agent.py's delete_task called without task_id and with task_number
\* k: for 1 <= k <= n it deletes, and reports deleted, a task that stands
\* k-th when all n stored tasks are listed newest first; for every other k
\* it reports the number not found and deletes nothing.
C10_OrdinalIsPosition ==
    [][(/\ call = NoCall
        /\ call'.tool = "agent.delete_task"
        /\ IsNone(call'.task_id)
        /\ ~IsNone(call'.task_number)) =>
          IF Val(call'.task_number) \in 1..Len(store)
          THEN \E i \in DOMAIN store :
                  /\ Newer(store, i) < Val(call'.task_number)
                  /\ Val(call'.task_number) <= NotOlder(store, i)
                  /\ store' = Without(store, DigitsToInt(store[i].id))
                  /\ reply' = Reply("deleted", DigitsToInt(store[i].id))
          ELSE /\ store' = store
               /\ reply' = Reply("not_found_number", Val(call'.task_number))]_vars

-----------------------------------------------------------------------------
(* Properties of task resolution in update_task and delete_task             *)

\* the step is a call of the named tool
Calls(tool) == call = NoCall /\ call'.tool = tool

\* the id a call of agent_tools.py's tools hands to the existence check:
\* task_id when given, else (delete_task) task_number
ToolsCandidate(c) ==
    IF ~IsNone(c.task_id) THEN c.task_id ELSE c.task_number

ResolvingCall ==
    /\ call = NoCall
    /\ call'.tool \in {"agent.update_task", "agent.delete_task",
                       "tools.update_task", "tools.delete_task"}

\* C12: an update_task or delete_task call that gives no task_id, no
\* task_title and no task_number answers "Please specify ..." and leaves the
\* store as it was, whatever the store holds.
C12_NothingGivenAsks ==
    [][(/\ ResolvingCall
        /\ IsNone(call'.task_id)
        /\ IsNone(call'.task_title)
        /\ IsNone(call'.task_number)) =>
          /\ reply' = Reply("need_spec", 0)
          /\ store' = store]_vars

\* agent.py's delete_task called with nothing on a store that holds tasks
C12_Witness ==
    /\ call # NoCall
    /\ call.tool = "agent.delete_task"
    /\ IsNone(call.task_id) /\ IsNone(call.task_title) /\ IsNone(call.task_number)
    /\ store # << >>
    /\ reply = Reply("need_spec", 0)

\* the step is a call that identifies the task by task_title alone
TitleOnly ==
    /\ ResolvingCall
    /\ IsNone(call'.task_id)
    /\ IsNone(call'.task_number)
    /\ StrTruthy(call'.task_title)

\* what the store's search returns for the call's title under ranking rank
Found(rank) ==
    search_tasks(store, Val(call'.task_title), call'.session_id, rank)

\* C13: a delete_task call that gives only a task_title deletes the first
\* task of the store's search result, and an update_task call that gives only
\* a task_title and valid fields updates that task; when the search returns
\* nothing the call answers that the title was not found and the store is
\* unchanged.
C13_TitleTakesFirstResult ==
    [][(/\ TitleOnly
        /\ call'.tool \in {"agent.update_task", "tools.update_task"}
              => call'.request.new_title = Some(<<"b">>)) =>
          \E rank \in Permutations(1..Len(store)) :
             IF Found(rank) = << >>
             THEN reply' = Reply("not_found_title", 0) /\ store' = store
             ELSE IF call'.tool \in {"agent.delete_task", "tools.delete_task"}
             THEN /\ reply' = Reply("deleted", Found(rank)[1].id)
                  /\ store' = Without(store, Found(rank)[1].id)
             ELSE reply' = Reply("updated", Found(rank)[1].id)]_vars

\* C14: for a store state and a title query, the task the search puts first
\* is the same whatever order the similarity query lists the tasks in, also
\* when tasks have equal created_at.
C14_SameTaskEveryTime ==
    \A r1 \in Permutations(1..Len(store)), r2 \in Permutations(1..Len(store)) :
        search_tasks(store, <<"a">>, None, r1) # << >> =>
            search_tasks(store, <<"a">>, None, r1)[1].id
                = search_tasks(store, <<"a">>, None, r2)[1].id

\* C15: an update_task or delete_task call that ends in "Please specify",
\* title not found, id not found or number not found leaves the store as it
\* was, and a delete_task call that reports a deletion removed the task it
\* names and no other, every other record unchanged.
C15_ResolutionKeepsStore ==
    [][ResolvingCall =>
          /\ reply'.kind \in {"need_spec", "not_found_title", "not_found_id",
                              "not_found_number"} => store' = store
          /\ reply'.kind = "deleted" =>
                /\ reply'.id \in StoredIds(store)
                /\ store' = Without(store, reply'.id)]_vars

\* a delete_task that removed one of two stored tasks
C15_Witness ==
    /\ call # NoCall
    /\ call.tool \in {"agent.delete_task", "tools.delete_task"}
    /\ reply.kind = "deleted"
    /\ Len(store) = 1
    /\ reply.id \notin StoredIds(store)

\* C20: the first task search_tasks returns is the one the similarity query
\* ranks nearest to the query.
C20_BestMatchFirst ==
    \A rank \in Permutations(1..Len(store)) :
        search_tasks(store, <<"a">>, None, rank) # << >> =>
            search_tasks(store, <<"a">>, None, rank)[1].id
                = DigitsToInt(store[rank[1]].id)

-----------------------------------------------------------------------------
(* Properties of the tools' replies, checked under Spec                     *)

\* the replies that are message strings
MessageKinds ==
    {"created", "updated", "deleted", "need_spec", "no_fields",
     "not_found_id", "not_found_title", "not_found_number",
     "empty_title", "invalid_category", "invalid_priority", "bad_time",
     "error"}

\* C18: every call of create_task, update_task and delete_task, of agent.py
\* and of agent_tools.py, returns a message; no exception leaves the tool,
\* also when the date expression is rejected or its "in N days" offset
\* overflows the datetime range.
C18_FailuresAreMessages ==
    call # NoCall => reply.kind \in MessageKinds

\* agent_tools.py's create_task called with an offset that overflows
\* (OverflowError inside parse_relative_date), answered by an error message
C18_Witness ==
    /\ call # NoCall
    /\ call.tool = "tools.create_task"
    /\ StrTruthy(call.request.scheduled_time)
    /\ parse_relative_date(Val(call.request.scheduled_time), now).kind = "error"
    /\ parse_relative_date(Val(call.request.scheduled_time), now).exc = "OverflowError"
    /\ reply = Reply("error", 0)

-----------------------------------------------------------------------------
(* Properties of the tools' handling of scheduled_time, checked under Spec  *)

\* the tool's own date parsing rejects the text: dateutil's parse in agent.py,
\* parse_relative_date in agent_tools.py
TimeRejected(tool, text, n) ==
    IF tool \in {"agent.create_task", "agent.update_task"}
    THEN ~DateutilParse(text, FALSE, StartOfDay(n)).ok
    ELSE parse_relative_date(text, n).kind = "error"

\* a create_task or update_task call whose scheduled_time is rejected
RejectedTimeCall ==
    /\ call = NoCall
    /\ call'.tool \in {"agent.create_task", "agent.update_task",
                       "tools.create_task", "tools.update_task"}
    /\ StrTruthy(call'.request.scheduled_time)
    /\ TimeRejected(call'.tool, Val(call'.request.scheduled_time), now)

\* C23: a create_task or update_task call, of agent.py or agent_tools.py,
\* whose non-empty scheduled_time the date parsing rejects leaves the store
\* as it was and does not answer that a task was created or updated.
C23_RejectedTimeStops ==
    [][RejectedTimeCall =>
          /\ store' = store
          /\ reply'.kind \notin {"created", "updated"}]_vars

-----------------------------------------------------------------------------
(* Properties of the tools' handling of priority, checked under Spec        *)

\* the priority text names none of low, medium, high in any case of letters
UnknownPriority(priority) == IsNone(Priority(Lower(priority)))

\* the arguments of the create call other than priority pass the tool's checks
CreatePasses(req, n) ==
    /\ ~IsBlank(req.title)
    /\ ~BadCategory(req.category)
    /\ ToolsSchedule(req.scheduled_time, n).kind # "error"

\* C28: in agent_tools.py a priority text outside low, medium, high makes
\* create_task store the task with priority medium, and makes update_task of
\* a task of the session answer 'Invalid priority' and leave the store as it
\* was.
C28_UnknownPriority ==
    [][/\ (/\ Calls("tools.create_task")
           /\ UnknownPriority(call'.request.priority)
           /\ CreatePasses(call'.request, now)) =>
             /\ Len(store') = Len(store) + 1
             /\ SubSeq(store', 1, Len(store)) = store
             /\ store'[Len(store')].priority = W_medium
       /\ (/\ Calls("tools.update_task")
           /\ StrTruthy(call'.request.priority)
           /\ UnknownPriority(Val(call'.request.priority))) =>
             /\ store' = store
             /\ (/\ IntTruthy(call'.task_id)
                 /\ ~IsNone(get_task(store, Val(call'.task_id), call'.session_id))
                 /\ ~(/\ StrTruthy(call'.request.new_title)
                      /\ IsBlank(Val(call'.request.new_title)))) =>
                    reply'.kind = "invalid_priority"]_vars

\* an update_task with priority "urgent" refused, its task being stored for
\* the caller's session with priority medium
C28_Witness ==
    /\ call # NoCall
    /\ call.tool = "tools.update_task"
    /\ call.request.priority = Some(W_urgent)
    /\ reply.kind = "invalid_priority"
    /\ store # << >>
    /\ CollectionGet(store, IntStr(Val(call.task_id)))[1].priority = W_medium
    /\ CollectionGet(store, IntStr(Val(call.task_id)))[1].session_id = call.session_id

-----------------------------------------------------------------------------
(* The Database driven directly, as main.py's routes drive it, and started  *)
(* again over the stored collection                                        *)

MaxClock == 2

Max(S) == CHOOSE x \in S : \A y \in S : y <= x

\* _init_id_counter with the number of stored tasks in place of the largest id
init_id_counter_Count(coll) == Len(coll) + 1

\* _init_id_counter: one past the largest stored id, 1 for an empty
\* collection
init_id_counter(coll) ==
    IF coll = << >> THEN 1
    ELSE IF Max({DigitsToInt(coll[i].id) : i \in DOMAIN coll}) > 0
    THEN Max({DigitsToInt(coll[i].id) : i \in DOMAIN coll}) + 1
    ELSE 1

\* the callers of the Database: no session, and two sessions
OwnerSessions == Sessions \cup {<<"s","2">>}
DbSessions == {None} \cup {Some(s) : s \in OwnerSessions}

DbTasks ==
    {TaskCreate(<<"a">>, "medium", None, None),
     TaskCreate(<<"b">>, "high", Some(DateTime(2024, 3, 5, 0, 0, 0, 0)), Some("work"))}

DbUpdates ==
    {TaskUpdate(Some(<<"b">>), None, None, None),
     TaskUpdate(None, Some("low"), Some(DateTime(2024, 3, 6, 9, 30, 0, 0)),
                Some("personal"))}

DbReturned(value) == [kind |-> "returned", value |-> value]

\* the state after a Database method other than create_task
AfterDb(coll, value, c) ==
    /\ store' = coll
    /\ reply' = DbReturned(value)
    /\ call' = c
    /\ UNCHANGED <<next_id, clock>>
    /\ UNCHANGED <<dateVars, workerVars, graphVars>>

\* Database.create_task: _get_next_id, the add, the task read back
DbCreateTask ==
    /\ call = NoCall
    /\ next_id <= MaxTasks
    /\ \E task \in DbTasks, s \in DbSessions,
          tick \in 0..(IF clock < MaxClock THEN 1 ELSE 0) :
          /\ store' = create_task(store, next_id, task, Stamp(clock), s)
          /\ next_id' = next_id + 1
          /\ clock' = clock + tick
          /\ reply' = DbReturned(get_task(store', next_id, s))
          /\ call' = Call("db.create_task", s, Some(next_id), None, None, task)
          /\ UNCHANGED <<dateVars, workerVars, graphVars>>

DbUpdateTask ==
    /\ call = NoCall
    /\ \E id \in 1..MaxTasks, upd \in DbUpdates, s \in DbSessions :
          AfterDb(update_task(store, id, upd, s),
                  IF IsNone(get_task(store, id, s)) THEN None
                  ELSE get_task(update_task(store, id, upd, s), id, s),
                  Call("db.update_task", s, Some(id), None, None, upd))

DbDeleteTask ==
    /\ call = NoCall
    /\ \E id \in 1..MaxTasks, s \in DbSessions :
          AfterDb(delete_task(store, id, s),
                  ~(StrTruthy(s) /\ IsNone(get_task(store, id, s))),
                  Call("db.delete_task", s, Some(id), None, None, None))

\* a new Database over the same persistent collection: __init__ runs
\* _init_id_counter
Restart ==
    /\ call = NoCall
    /\ next_id' = init_id_counter(store)
    /\ UNCHANGED <<store, clock, reply, call>>
    /\ UNCHANGED <<dateVars, workerVars, graphVars>>

NextDb ==
    \/ ReturnReply
    \/ DbCreateTask
    \/ DbUpdateTask
    \/ DbDeleteTask
    \/ Restart

SpecDb == Init /\ [][NextDb]_vars

-----------------------------------------------------------------------------
(* Properties of the Database, checked under SpecDb                        *)

RecordOf(coll, id) == CollectionGet(coll, IntStr(id))[1]

\* C17: update_task of a stored task, whatever the TaskUpdate, leaves
\* exactly one record with the task's id, with the created_at it had, and
\* the task it returns carries that id and that created_at.
C17_UpdateKeepsIdAndCreatedAt ==
    [][(Calls("db.update_task") /\ Val(call'.task_id) \in StoredIds(store)) =>
          /\ Len(CollectionGet(store', IntStr(Val(call'.task_id)))) = 1
          /\ RecordOf(store', Val(call'.task_id)).created_at
                = RecordOf(store, Val(call'.task_id)).created_at
          /\ StoredIds(store') = StoredIds(store)
          /\ ~IsNone(reply'.value) =>
                /\ Val(reply'.value).id = Val(call'.task_id)
                /\ Val(reply'.value).created_at
                      = fromisoformat(RecordOf(store, Val(call'.task_id)).created_at)]_vars

\* an update_task that returned the task with a field changed
C17_Witness ==
    /\ call # NoCall
    /\ call.tool = "db.update_task"
    /\ ~IsNone(reply.value)
    /\ Val(reply.value).priority = "low"
    /\ Len(store) = 2
    /\ store[2].id = <<"1">>

\* the ids of a list of tasks, in the list's order
IdsOf(tasks) == [i \in 1..Len(tasks) |-> tasks[i].id]

\* no task of the list is followed by one created later
NewestFirst(tasks) ==
    \A i, j \in 1..Len(tasks) :
        i < j => ~Earlier(tasks[i].created_at, tasks[j].created_at)

\* C21: after any sequence of create_task, update_task and delete_task,
\* get_all_tasks lists the session's tasks by created_at descending, and an
\* update_task leaves the order of the ids in that list as it was.
C21_UpdateKeepsPlace ==
    [][/\ \A s \in DbSessions : NewestFirst(get_all_tasks(store', s))
       /\ Calls("db.update_task") =>
             \A s \in DbSessions :
                 IdsOf(get_all_tasks(store', s)) = IdsOf(get_all_tasks(store, s))]_vars

\* the part of C21 about the order alone
C21_ListedNewestFirst ==
    \A s \in DbSessions : NewestFirst(get_all_tasks(store, s))

\* the stored records a session owns
OwnedBy(coll, a) == SelectSeq(coll, LAMBDA m : m.session_id = Some(a))

\* no read of the collection made for session b returns this record
HiddenFrom(coll, m, b) ==
    /\ IsNone(get_task(coll, DigitsToInt(m.id), Some(b)))
    /\ \A i \in 1..Len(get_all_tasks(coll, Some(b))) :
           get_all_tasks(coll, Some(b))[i].id # DigitsToInt(m.id)
    /\ \A rank \in Permutations(1..Len(coll)) :
           \A i \in 1..Len(search_tasks(coll, <<"a">>, Some(b), rank)) :
               search_tasks(coll, <<"a">>, Some(b), rank)[i].id # DigitsToInt(m.id)

\* the call is made for session b on the id of a record session a owns
CallOnOwned(tool, a, b) ==
    /\ Calls(tool)
    /\ call'.session_id = Some(b)
    /\ Val(call'.task_id) \in StoredIds(OwnedBy(store, a))

\* C22: for two different sessions a and b, a task created for a is returned
\* by no get_task, get_all_tasks or search_tasks made for b; update_task and
\* delete_task made for b on its id report failure and leave the store as it
\* was; and an update_task made for a leaves the task with session a.
C22_SessionsIsolated ==
    [][\A a, b \in OwnerSessions : a # b =>
          /\ \A i \in DOMAIN store' :
                 store'[i].session_id = Some(a) => HiddenFrom(store', store'[i], b)
          /\ CallOnOwned("db.update_task", a, b) =>
                 IsNone(reply'.value) /\ store' = store
          /\ CallOnOwned("db.delete_task", a, b) =>
                 reply'.value = FALSE /\ store' = store
          /\ CallOnOwned("db.update_task", a, a) =>
                 RecordOf(store', Val(call'.task_id)).session_id = Some(a)]_vars

\* an update_task made for one session on the other's task, refused, with a
\* task of each session in the store
C22_Witness ==
    /\ call # NoCall
    /\ call.tool = "db.update_task"
    /\ StrTruthy(call.session_id)
    /\ Len(store) = 2
    /\ Val(call.task_id) \in StoredIds(store)
    /\ \A s \in OwnerSessions : OwnedBy(store, s) # << >>
    /\ RecordOf(store, Val(call.task_id)).session_id # call.session_id
    /\ IsNone(reply.value)

\* the field of the task after an update: the update's value when it gives
\* one, the task's own otherwise
Updated(given, previous) == IF IsNone(given) THEN previous ELSE Val(given)
UpdatedOption(given, previous) == IF IsNone(given) THEN previous ELSE given

\* the task is the task before with the fields the update gives
FieldsFollow(after, before, upd) ==
    /\ after.title = Updated(upd.title, before.title)
    /\ after.priority = Updated(upd.priority, before.priority)
    /\ after.category = UpdatedOption(upd.category, before.category)
    /\ after.scheduled_time = UpdatedOption(upd.scheduled_time, before.scheduled_time)

\* C24: update_task of a task its caller may see sets title, priority,
\* category and scheduled_time to the TaskUpdate's value where it gives one
\* and leaves them as they were where it gives None; the task's session_id
\* stays, and the record of every other task is as it was.
C24_UpdateSetsOnlyGiven ==
    [][(/\ Calls("db.update_task")
        /\ ~IsNone(get_task(store, Val(call'.task_id), call'.session_id))) =>
          /\ ~IsNone(get_task(store', Val(call'.task_id), call'.session_id))
          /\ reply'.value = get_task(store', Val(call'.task_id), call'.session_id)
          /\ FieldsFollow(Val(get_task(store', Val(call'.task_id), call'.session_id)),
                          Val(get_task(store, Val(call'.task_id), call'.session_id)),
                          call'.request)
          /\ RecordOf(store', Val(call'.task_id)).session_id
                = RecordOf(store, Val(call'.task_id)).session_id
          /\ StoredIds(store') = StoredIds(store)
          /\ \A other \in StoredIds(store) \ {Val(call'.task_id)} :
                 RecordOf(store', other) = RecordOf(store, other)]_vars

\* an update_task that gave a title alone to a scheduled, categorised task of
\* a session, another task being stored
C24_Witness ==
    /\ call # NoCall
    /\ call.tool = "db.update_task"
    /\ ~IsNone(reply.value)
    /\ ~IsNone(call.request.title)
    /\ IsNone(call.request.scheduled_time)
    /\ Val(reply.value).title = Val(call.request.title)
    /\ ~IsNone(Val(reply.value).scheduled_time)
    /\ Val(reply.value).category = Some("work")
    /\ StrTruthy(RecordOf(store, Val(call.task_id)).session_id)
    /\ Len(store) = 2

-----------------------------------------------------------------------------
(* Database methods run by threads, statement by statement.  The tool node  *)
(* of agent.py's agent runs the tool calls of one AI message in worker      *)
(* threads over the one Database, which takes no lock.                     *)

WorkerTasks == {TaskCreate(<<"a">>, "medium", None, None)}
WorkerUpdates == {TaskUpdate(Some(<<"b">>), None, None, None)}

\* collection.add: a record is added unless the call raises; an id the
\* collection already holds is refused, silently or with an exception as the
\* Chroma build has it
AddOutcomes(coll, metadata) ==
    IF CollectionGet(coll, metadata.id) # << >>
    THEN {[store |-> coll, raised |-> FALSE], [store |-> coll, raised |-> TRUE]}
    ELSE {[store |-> CollectionAdd(coll, metadata), raised |-> FALSE],
          [store |-> coll, raised |-> TRUE]}

\* one worker takes a step; the others and the rest of the state stay
Step(w, local) ==
    /\ workers' = [workers EXCEPT ![w] = local]
    /\ UNCHANGED <<reply, call>>
    /\ UNCHANGED <<dateVars, graphVars>>

\* a thread enters create_task
StartCreate(w) ==
    /\ workers[w].pc = "idle"
    /\ next_id <= MaxTasks
    /\ \E task \in WorkerTasks :
           Step(w, [Idle EXCEPT !.pc = "get_next_id", !.op = "create_task",
                                !.request = task])
    /\ UNCHANGED <<store, next_id, clock>>

\* _get_next_id: current_id = self._next_id
ReadNextId(w) ==
    /\ workers[w].pc = "get_next_id"
    /\ Step(w, [workers[w] EXCEPT !.pc = "load_counter", !.current_id = next_id])
    /\ UNCHANGED <<store, next_id, clock>>

\* _get_next_id: self._next_id += 1, the load
LoadCounter(w) ==
    /\ workers[w].pc = "load_counter"
    /\ Step(w, [workers[w] EXCEPT !.pc = "store_counter", !.loaded = next_id])
    /\ UNCHANGED <<store, next_id, clock>>

\* _get_next_id: self._next_id += 1, the store
StoreCounter(w) ==
    /\ workers[w].pc = "store_counter"
    /\ next_id' = workers[w].loaded + 1
    /\ Step(w, [workers[w] EXCEPT !.pc = "add"])
    /\ UNCHANGED <<store, clock>>

\* create_task: created_at = datetime.now() and collection.add; the threads
\* run within one reading of the clock
CreateAdd(w) ==
    /\ workers[w].pc = "add"
    /\ \E out \in AddOutcomes(store,
                              task_to_metadata(workers[w].current_id,
                                               workers[w].request,
                                               Stamp(clock), None)) :
           /\ store' = out.store
           /\ Step(w, [workers[w] EXCEPT
                          !.pc = IF out.raised THEN "raised" ELSE "read_back"])
    /\ UNCHANGED <<next_id, clock>>

\* create_task: return self.get_task(task_id, session_id)
CreateReturn(w) ==
    /\ workers[w].pc = "read_back"
    /\ workers[w].op = "create_task"
    /\ Step(w, [workers[w] EXCEPT
                   !.pc = "returned",
                   !.ret = get_task(store, workers[w].current_id, None)])
    /\ UNCHANGED <<store, next_id, clock>>

\* a thread enters update_task
StartUpdate(w) ==
    /\ workers[w].pc = "idle"
    /\ \E id \in 1..MaxTasks, upd \in WorkerUpdates :
           Step(w, [Idle EXCEPT !.pc = "get", !.op = "update_task",
                                !.task_id = id, !.request = upd])
    /\ UNCHANGED <<store, next_id, clock>>

\* update_task: existing_task = self.get_task(...), None returned at once
UpdateGet(w) ==
    /\ workers[w].pc = "get"
    /\ Step(w, [workers[w] EXCEPT
                   !.pc = IF IsNone(get_task(store, workers[w].task_id, None))
                          THEN "returned" ELSE "get_metadata",
                   !.existing_task = get_task(store, workers[w].task_id, None)])
    /\ UNCHANGED <<store, next_id, clock>>

\* update_task: the stored session_id read for the new record
UpdateGetMetadata(w) ==
    /\ workers[w].pc = "get_metadata"
    /\ Step(w, [workers[w] EXCEPT
                   !.pc = "delete",
                   !.existing_session =
                       IF CollectionGet(store, IntStr(workers[w].task_id)) = << >>
                       THEN None
                       ELSE CollectionGet(store, IntStr(workers[w].task_id))[1].session_id])
    /\ UNCHANGED <<store, next_id, clock>>

\* update_task: self.collection.delete(ids=[str(task_id)])
UpdateDelete(w) ==
    /\ workers[w].pc = "delete"
    /\ store' = CollectionDelete(store, IntStr(workers[w].task_id))
    /\ Step(w, [workers[w] EXCEPT !.pc = "readd"])
    /\ UNCHANGED <<next_id, clock>>

\* update_task: self.collection.add(...) of the updated record
UpdateAdd(w) ==
    /\ workers[w].pc = "readd"
    /\ \E out \in AddOutcomes(store,
                              updated_metadata(Val(workers[w].existing_task),
                                               [session_id |-> workers[w].existing_session],
                                               workers[w].request)) :
           /\ store' = out.store
           /\ Step(w, [workers[w] EXCEPT
                          !.pc = IF out.raised THEN "raised" ELSE "read_back"])
    /\ UNCHANGED <<next_id, clock>>

\* update_task: return self.get_task(task_id, session_id)
UpdateReturn(w) ==
    /\ workers[w].pc = "read_back"
    /\ workers[w].op = "update_task"
    /\ Step(w, [workers[w] EXCEPT
                   !.pc = "returned",
                   !.ret = get_task(store, workers[w].task_id, None)])
    /\ UNCHANGED <<store, next_id, clock>>

\* a thread runs get_task
GetTask(w) ==
    /\ workers[w].pc = "idle"
    /\ \E id \in 1..MaxTasks :
           Step(w, [Idle EXCEPT !.pc = "returned", !.op = "get_task",
                                !.task_id = id,
                                !.ret = get_task(store, id, None)])
    /\ UNCHANGED <<store, next_id, clock>>

\* a thread runs get_all_tasks
GetAllTasks(w) ==
    /\ workers[w].pc = "idle"
    /\ Step(w, [Idle EXCEPT !.pc = "returned", !.op = "get_all_tasks",
                            !.ret = get_all_tasks(store, None)])
    /\ UNCHANGED <<store, next_id, clock>>

\* the method is over, by return or by exception
Finish(w) ==
    /\ workers[w].pc \in {"returned", "raised"}
    /\ Step(w, Idle)
    /\ UNCHANGED <<store, next_id, clock>>

NextWorkers ==
    \E w \in Workers :
        \/ StartCreate(w)
        \/ ReadNextId(w)
        \/ LoadCounter(w)
        \/ StoreCounter(w)
        \/ CreateAdd(w)
        \/ CreateReturn(w)
        \/ StartUpdate(w)
        \/ UpdateGet(w)
        \/ UpdateGetMetadata(w)
        \/ UpdateDelete(w)
        \/ UpdateAdd(w)
        \/ UpdateReturn(w)
        \/ GetTask(w)
        \/ GetAllTasks(w)
        \/ Finish(w)

SpecWorkers == Init /\ [][NextWorkers]_vars

-----------------------------------------------------------------------------
(* Properties of the Database under threads, checked under SpecWorkers      *)

\* the thread is inside update_task of this id, past the get_task that found
\* the task and before its return
Updating(u, id) ==
    /\ workers[u].op = "update_task"
    /\ workers[u].task_id = id
    /\ workers[u].pc \in {"get_metadata", "delete", "readd", "read_back"}

\* the thread leaves update_task in this step, having found the task
UpdateEnds(u) ==
    /\ workers[u].op = "update_task"
    /\ ~IsNone(workers[u].existing_task)
    /\ workers[u].pc \in {"readd", "read_back"}
    /\ workers'[u].pc \in {"returned", "raised"}

\* the thread runs this read in this step
Reads(r, op) == workers[r].pc = "idle" /\ workers'[r].op = op

\* C25: an update_task that found its task leaves a task with that id in the
\* store when it ends, by return or by a failed re-add; and a get_task or
\* get_all_tasks run by another thread while the update is under way finds
\* the task.
C25_UpdateNeverLoses ==
    [][\A u \in Workers :
          /\ UpdateEnds(u) => workers[u].task_id \in StoredIds(store')
          /\ \A r \in Workers \ {u} :
                /\ (Reads(r, "get_task") /\ Updating(u, workers'[r].task_id)) =>
                       ~IsNone(workers'[r].ret)
                /\ (Reads(r, "get_all_tasks") /\ Updating(u, workers[u].task_id)) =>
                       \E i \in 1..Len(workers'[r].ret) :
                           workers'[r].ret[i].id = workers[u].task_id]_vars

\* the thread has returned from create_task
HasCreated(w) == workers[w].op = "create_task" /\ workers[w].pc = "returned"

\* C26: two threads that have both returned from create_task on the one
\* Database hold different ids, and the store holds a task under each.
C26_InterleavedCreatesDiffer ==
    \A v, w \in Workers :
        (v # w /\ HasCreated(v) /\ HasCreated(w)) =>
            /\ workers[v].current_id # workers[w].current_id
            /\ {workers[v].current_id, workers[w].current_id} \subseteq StoredIds(store)

-----------------------------------------------------------------------------
(* langgraph-codes: the llm/tools graphs of chat_todo.py and                *)
(* chat_websearch.py.  call.tool names the program of the current run; the  *)
(* todos list is the module global of chat_todo.py and outlives the runs.   *)

MaxTodos == 2
MaxSupersteps == 4

Programs == {"chat_todo", "chat_websearch"}

\* tools_by_name of each program
tools_by_name(program) ==
    IF program = "chat_todo"
    THEN {"add_todo", "list_todos", "complete_todo", "delete_todo"}
    ELSE {"web_search"}

\* what a tool hands back: the todos list it leaves and its observation
Observed(tds, content) == [todos |-> tds, content |-> content]

\* the position of the first todo with this id, 0 when there is none
RECURSIVE FirstWithId(_, _, _)
FirstWithId(tds, todo_id, i) ==
    IF i > Len(tds) THEN 0
    ELSE IF tds[i].id = todo_id THEN i
    ELSE FirstWithId(tds, todo_id, i + 1)

\* add_todo
add_todo(tds, task) ==
    Observed(Append(tds, [id |-> Len(tds) + 1, task |-> task, completed |-> FALSE]),
             <<"Added todo", task, Len(tds) + 1>>)

\* list_todos
list_todos(tds) ==
    Observed(tds, IF tds = << >> THEN <<"No todos found.">> ELSE <<"Todo List", tds>>)

\* complete_todo: the first todo with the id is marked
complete_todo(tds, todo_id) ==
    IF FirstWithId(tds, todo_id, 1) = 0
    THEN Observed(tds, <<"not found", todo_id>>)
    ELSE Observed([tds EXCEPT ![FirstWithId(tds, todo_id, 1)].completed = TRUE],
                  <<"Completed todo", tds[FirstWithId(tds, todo_id, 1)].task>>)

\* todos.pop(i)
Pop(tds, i) == SubSeq(tds, 1, i - 1) \o SubSeq(tds, i + 1, Len(tds))

\* delete_todo: the first todo with the id is removed
delete_todo(tds, todo_id) ==
    IF FirstWithId(tds, todo_id, 1) = 0
    THEN Observed(tds, <<"not found", todo_id>>)
    ELSE Observed(Pop(tds, FirstWithId(tds, todo_id, 1)),
                  <<"Deleted todo", tds[FirstWithId(tds, todo_id, 1)].task>>)

\* web_search: the formatted results, or the text of its except clause; web
\* is what the search engine does for this run of the node
WebOutcomes == {"results", "No search results found.", "Error performing web search"}
web_search(tds, query, web) == Observed(tds, <<web>>)

\* tool.invoke(tool_call["args"])
Invoke(tds, tool_call, web) ==
    IF tool_call.name = "add_todo" THEN add_todo(tds, tool_call.args)
    ELSE IF tool_call.name = "list_todos" THEN list_todos(tds)
    ELSE IF tool_call.name = "complete_todo" THEN complete_todo(tds, tool_call.args)
    ELSE IF tool_call.name = "delete_todo" THEN delete_todo(tds, tool_call.args)
    ELSE web_search(tds, tool_call.args, web)

HumanMessage == [type |-> "human"]
AIMessage(tool_calls) == [type |-> "ai", tool_calls |-> tool_calls]
ToolMessage(content, tool_call_id) ==
    [type |-> "tool", content |-> content, tool_call_id |-> tool_call_id]

\* the loop of tool_node over the calls from position i on: the ToolMessages
\* so far, the todos list so far; a name that is not in tools_by_name raises
\* KeyError and ends the loop
LoopState(tds, added, raised) == [todos |-> tds, result |-> added, raised |-> raised]

RECURSIVE ToolLoop(_, _, _, _, _)
ToolLoop(program, calls, i, web, acc) ==
    IF i > Len(calls) THEN acc
    ELSE IF calls[i].name \notin tools_by_name(program)
    THEN LoopState(acc.todos, acc.result, TRUE)
    ELSE ToolLoop(program, calls, i + 1, web,
                  LoopState(Invoke(acc.todos, calls[i], web).todos,
                            Append(acc.result,
                                   ToolMessage(Invoke(acc.todos, calls[i], web).content,
                                               calls[i].id)),
                            FALSE))

\* a tool_node that stops after the first call
tool_node_FirstOnly(program, msgs, tds, web) ==
    ToolLoop(program, SubSeq(msgs[Len(msgs)].tool_calls, 1, 1), 1, web,
             LoopState(tds, << >>, FALSE))

\* tool_node
tool_node(program, msgs, tds, web) ==
    ToolLoop(program, msgs[Len(msgs)].tool_calls, 1, web,
             LoopState(tds, << >>, FALSE))

\* should_continue that always ends the run
should_continue_End(msgs) == "END"

\* should_continue
should_continue(msgs) ==
    IF msgs[Len(msgs)].tool_calls # << >> THEN "tools" ELSE "END"

\* the tool calls the model may ask for, by name and argument
ToolRequests ==
    {[name |-> "add_todo", args |-> <<"x">>],
     [name |-> "list_todos", args |-> << >>],
     [name |-> "complete_todo", args |-> 2],
     [name |-> "delete_todo", args |-> 1],
     [name |-> "web_search", args |-> <<"q">>]}

RequestSeqs == {<<r>> : r \in ToolRequests} \cup (ToolRequests \X ToolRequests)

NumAdds(reqs) == Cardinality({i \in DOMAIN reqs : reqs[i].name = "add_todo"})

\* the provider gives every tool call an id of its own
WithIds(reqs, n) ==
    [i \in DOMAIN reqs |->
        [name |-> reqs[i].name, args |-> reqs[i].args, id |-> <<"call", n, i>>]]

\* model_with_tools.invoke: an answer, or tool calls; the todos list is kept
\* within MaxTodos
Responses(msgs, tds) ==
    {AIMessage(<< >>)}
    \cup {AIMessage(WithIds(reqs, Len(msgs))) :
              reqs \in {r \in RequestSeqs : Len(tds) + NumAdds(r) <= MaxTodos}}

\* the supersteps of the run so far
Supersteps(msgs, at) ==
    Cardinality({i \in DOMAIN msgs : msgs[i].type = "ai"})
    + Cardinality({i \in DOMAIN msgs : msgs[i].type = "ai" /\ msgs[i].tool_calls # << >>})
    - (IF at = "tools" THEN 1 ELSE 0)

GraphFrame ==
    /\ UNCHANGED <<dateVars, workerVars>>
    /\ UNCHANGED <<store, next_id, clock, reply, threads>>

\* chat(): agent.invoke({"messages": [HumanMessage(...)]})
Chat ==
    /\ node \in {"END", "raised"}
    /\ \E program \in Programs :
           call' = [tool |-> program]
    /\ messages' = <<HumanMessage>>
    /\ node' = "llm"
    /\ UNCHANGED todos
    /\ GraphFrame

\* llm_node, then the conditional edge
LlmNode ==
    /\ node = "llm"
    /\ Supersteps(messages, node) < MaxSupersteps
    /\ \E response \in Responses(messages, todos) :
           /\ messages' = Append(messages, response)
           /\ node' = should_continue(messages')
    /\ UNCHANGED <<todos, call>>
    /\ GraphFrame

\* the state after tool_node: its messages added and the llm node next, or
\* the run ended by the exception; the tools' changes of todos stay either way
AfterToolNode(out) ==
    /\ todos' = out.todos
    /\ messages' = IF out.raised THEN messages ELSE messages \o out.result
    /\ node' = IF out.raised THEN "raised" ELSE "llm"

ToolNode ==
    /\ node = "tools"
    /\ Supersteps(messages, node) < MaxSupersteps
    /\ \E web \in WebOutcomes :
           AfterToolNode(tool_node(call.tool, messages, todos, web))
    /\ UNCHANGED call
    /\ GraphFrame

\* the graph's recursion limit: the run is ended by GraphRecursionError
RecursionLimit ==
    /\ node \in {"llm", "tools"}
    /\ Supersteps(messages, node) >= MaxSupersteps
    /\ node' = "raised"
    /\ UNCHANGED <<todos, messages, call>>
    /\ GraphFrame

NextGraph ==
    \/ Chat
    \/ LlmNode
    \/ ToolNode
    \/ RecursionLimit

SpecGraph == Init /\ [][NextGraph]_vars

-----------------------------------------------------------------------------
(* Properties of the todo list and of the graphs, checked under SpecGraph   *)

\* C27: after any sequence of add_todo, complete_todo and delete_todo calls,
\* no two todos of the list have the same id.
C27_TodoIdsDiffer ==
    \A i, j \in DOMAIN todos : todos[i].id = todos[j].id => i = j

\* the last message
Last(msgs) == msgs[Len(msgs)]

\* the last AI message of the list, 0 when there is none
RECURSIVE LastAi(_, _)
LastAi(msgs, i) ==
    IF i = 0 THEN 0
    ELSE IF msgs[i].type = "ai" THEN i
    ELSE LastAi(msgs, i - 1)

\* the messages after the AI message at position a are its calls' answers:
\* one ToolMessage a call, in the order of the calls, with the call's id
Answers(msgs, a) ==
    /\ Len(msgs) - a = Len(msgs[a].tool_calls)
    /\ \A i \in 1..Len(msgs[a].tool_calls) :
           /\ msgs[a + i].type = "tool"
           /\ msgs[a + i].tool_call_id = msgs[a].tool_calls[i].id

\* C29: an AI message with k >= 1 tool calls sends the run to the tools node,
\* and the tools node hands over to the llm node only after adding exactly k
\* ToolMessages, one a call, in call order, with the call's tool_call_id; the
\* llm node runs on nothing but the first message or such a block; and the
\* run is at END exactly after an AI message without tool calls.
C29_ToolsAnswerEveryCall ==
    [][/\ (node = "llm" /\ messages' # messages) =>
             /\ Last(messages').type = "ai"
             /\ node' = IF Last(messages').tool_calls # << >> THEN "tools" ELSE "END"
             /\ \/ Len(messages) = 1 /\ Last(messages).type = "human"
                \/ /\ LastAi(messages, Len(messages)) # 0
                   /\ Last(messages).type = "tool"
                   /\ Answers(messages, LastAi(messages, Len(messages)))
       /\ (node = "tools" /\ node' = "llm") =>
             /\ Len(messages') = Len(messages) + Len(Last(messages).tool_calls)
             /\ SubSeq(messages', 1, Len(messages)) = messages
             /\ Answers(messages', Len(messages))
       /\ (node' = "tools") =>
             Last(messages').type = "ai" /\ Last(messages').tool_calls # << >>
       /\ (node' = "END" /\ messages' # << >>) =>
             Last(messages').type = "ai" /\ Last(messages').tool_calls = << >>]_vars

\* the llm node about to run again after the tools node answered two calls
C29_Witness ==
    /\ node = "llm"
    /\ Len(messages) = 4
    /\ Len(messages[2].tool_calls) = 2
    /\ messages[2].tool_calls[1].name # messages[2].tool_calls[2].name
    /\ messages[3].tool_call_id = messages[2].tool_calls[1].id
    /\ messages[4].tool_call_id = messages[2].tool_calls[2].id
    /\ messages[3].tool_call_id # messages[4].tool_call_id

-----------------------------------------------------------------------------
(* langgraph-codes/chat_threads_memory.py: the one-node graph over the      *)
(* global thread_store.  threads gives each thread id None while the dict   *)
(* has no such key, else the list stored under it.                         *)

MaxHistory == 4

ThreadIds == {"default", "t1"}
Contents == {"hi", "yo"}

SystemMessage == [type |-> "system"]
Human(content) == [type |-> "human", content |-> content]
AI(content) == [type |-> "ai", content |-> content]

\* ThreadStore.__init__
NoThreads == [t \in ThreadIds |-> None]

\* ThreadStore.get_thread: self.threads.get(thread_id, [])
get_thread(ts, thread_id) == IF IsNone(ts[thread_id]) THEN << >> ELSE Val(ts[thread_id])

\* an add_message that starts the list again with each message
add_message_Restart(ts, thread_id, message) ==
    [ts EXCEPT ![thread_id] = Some(<<message>>)]

\* ThreadStore.add_message
add_message(ts, thread_id, message) ==
    [ts EXCEPT ![thread_id] = Some(Append(get_thread(ts, thread_id), message))]

\* ThreadStore.get_all_threads
get_all_threads(ts) == {t \in ThreadIds : ~IsNone(ts[t])}

\* for msg in state["messages"]: thread_store.add_message(thread_id, msg)
RECURSIVE AddMessages(_, _, _, _)
AddMessages(ts, thread_id, msgs, i) ==
    IF i > Len(msgs) THEN ts
    ELSE AddMessages(add_message(ts, thread_id, msgs[i]), thread_id, msgs, i + 1)

\* chat_node: what the model is given
all_messages(ts, thread_id, msgs) ==
    IF get_thread(ts, thread_id) \o msgs = << >>
       \/ (get_thread(ts, thread_id) \o msgs)[1].type # "system"
    THEN <<SystemMessage>> \o get_thread(ts, thread_id) \o msgs
    ELSE get_thread(ts, thread_id) \o msgs

\* chat_node: the thread store after the turn's messages and the response
chat_node(ts, thread_id, msgs, response) ==
    add_message(AddMessages(ts, thread_id, msgs, 1), thread_id, response)

ThreadFrame ==
    /\ UNCHANGED <<dateVars, workerVars>>
    /\ UNCHANGED <<store, next_id, clock, todos>>

\* the module is loaded: thread_store = ThreadStore()
InitThreads ==
    /\ expr = << >>
    /\ now = StoreNow
    /\ result = NotCalled
    /\ DbInit
    /\ WorkerInit
    /\ todos = << >>
    /\ messages = << >>
    /\ node = "END"
    /\ threads = NoThreads

\* chat(thread_id, message): agent.invoke of one HumanMessage
ChatThread ==
    /\ node \in {"END", "raised"}
    /\ \E t \in ThreadIds, c \in Contents :
           /\ Len(get_thread(threads, t)) + 2 <= MaxHistory
           /\ call' = [tool |-> "chat", thread_id |-> t]
           /\ messages' = <<Human(c)>>
    /\ node' = "chat"
    /\ reply' = NoReply
    /\ UNCHANGED threads
    /\ ThreadFrame

\* chat_node with the model answering
ChatNode ==
    /\ node = "chat"
    /\ all_messages(threads, call.thread_id, messages)[1] = SystemMessage
    /\ \E c \in Contents :
           /\ threads' = chat_node(threads, call.thread_id, messages, AI(c))
           /\ messages' = Append(messages, AI(c))
    /\ node' = "END"
    /\ UNCHANGED <<call, reply>>
    /\ ThreadFrame

\* chat_node with model.invoke raising: nothing is stored
ChatNodeRaises ==
    /\ node = "chat"
    /\ node' = "raised"
    /\ UNCHANGED <<threads, messages, call, reply>>
    /\ ThreadFrame

\* thread_store.get_thread(thread_id) from outside a turn
GetThread ==
    /\ node \in {"END", "raised"}
    /\ \E t \in ThreadIds :
           /\ call' = [tool |-> "get_thread", thread_id |-> t]
           /\ reply' = [kind |-> "returned", value |-> get_thread(threads, t)]
    /\ UNCHANGED <<threads, messages, node>>
    /\ ThreadFrame

\* the 'threads' command: thread_store.get_all_threads()
GetAllThreads ==
    /\ node \in {"END", "raised"}
    /\ call' = [tool |-> "get_all_threads", thread_id |-> "default"]
    /\ reply' = [kind |-> "returned", value |-> get_all_threads(threads)]
    /\ UNCHANGED <<threads, messages, node>>
    /\ ThreadFrame

NextThreads ==
    \/ ChatThread
    \/ ChatNode
    \/ ChatNodeRaises
    \/ GetThread
    \/ GetAllThreads

SpecThreads == InitThreads /\ [][NextThreads]_vars

-----------------------------------------------------------------------------
(* Properties of the thread store, checked under SpecThreads                *)

\* C30: a turn on a thread adds the turn's incoming messages and then the
\* model's response to the end of that thread's stored history and leaves
\* every other thread as it was; nothing else changes a history; get_thread
\* of an id without history returns the empty list and creates no thread; no
\* stored message is a system message.
C30_HistoriesAppendOnly ==
    [][/\ (node = "chat" /\ node' = "END") =>
             /\ get_thread(threads', call.thread_id)
                   = get_thread(threads, call.thread_id) \o messages
                     \o <<messages'[Len(messages')]>>
             /\ messages'[Len(messages')].type = "ai"
             /\ \A u \in ThreadIds \ {call.thread_id} : threads'[u] = threads[u]
       /\ ~(node = "chat" /\ node' = "END") => threads' = threads
       /\ (call'.tool = "get_thread" /\ IsNone(threads[call'.thread_id])) =>
             reply'.value = << >> /\ IsNone(threads'[call'.thread_id])
       /\ \A t \in ThreadIds : \A i \in 1..Len(get_thread(threads', t)) :
              get_thread(threads', t)[i].type # "system"]_vars

\* the second turn of a thread done while the other thread has a history of
\* its own
C30_Witness ==
    /\ node = "END"
    /\ call.tool = "chat"
    /\ Len(get_thread(threads, call.thread_id)) = 4
    /\ \A t \in ThreadIds : ~IsNone(threads[t])
    /\ get_thread(threads, "default") # get_thread(threads, "t1")
    /\ get_thread(threads, call.thread_id)[3] = messages[1]
    /\ get_thread(threads, call.thread_id)[4] = messages[2]

====
